---------------------------- MODULE Spec2Model ----------------------------
(***************************************************************************)
(* Model of the QA retrieval engine of AI_Travel_Planner_Pro:              *)
(*   backend/app/modules/qa/rag/knowledge_base.py  (KnowledgeBase)         *)
(*   backend/app/modules/qa/rag/vector_store.py    (tokenize, BM25)        *)
(*   backend/app/modules/qa/rag/retriever.py       (Retriever)             *)
(* and of the cache of backend/app/core/util_advanced/cache_system.py      *)
(*   (OverEngineeredCache and its eviction policies).                      *)
(*                                                                         *)
(* Text is a sequence of Unicode code points, so that str.strip, the       *)
(* token regex and str.lower are modelled by what they do to characters.   *)
(***************************************************************************)
EXTENDS Integers, Sequences, FiniteSets, TLC

VARIABLES
    \* KnowledgeBase configuration (constructor arguments)
    chunk_size, chunk_overlap, max_pages, max_docs,
    \* locals of one _chunk_text activation
    text, source, start, index, chunks, chunk_pc,
    \* history: the windows [start, end) the loop of _chunk_text has visited
    visited,
    \* the file system: the dataset directory, the text cache, the index cache
    dataset, text_file, meta_file, index_cache,
    \* KnowledgeBase instance: _chunks, _store, _retriever, _current_index_key
    self_chunks, store, retriever, current_index_key,
    \* the retrieve activation of each caller
    call,
    \* history: one completed build, kept to compare later builds with
    remembered,
    \* two applications of _index_signature: their arguments and results
    sig_in, sig_out,
    \* one application of _match_documents, of BM25VectorStore.search or of
    \* the loop of _build_index: its arguments and its result
    fn_args, fn_result,
    \* OverEngineeredCache instance: _cache, _eviction_policy, _max_size,
    \* _default_ttl, the tail of _event_log; and the clock time.time() reads
    cache, eviction_policy, max_size, default_ttl, event_log, now

cfgVars   == <<chunk_size, chunk_overlap, max_pages, max_docs>>
chunkVars == <<text, source, start, index, chunks, chunk_pc, visited>>
diskVars  == <<dataset, text_file, meta_file, index_cache>>
selfVars  == <<self_chunks, store, retriever, current_index_key>>
kbVars    == <<diskVars, selfVars, call, remembered>>
sigVars   == <<sig_in, sig_out>>
fnVars    == <<fn_args, fn_result>>
oecVars   == <<cache, eviction_policy, max_size, default_ttl, event_log, now>>
vars      == <<cfgVars, chunkVars, kbVars, sigVars, fnVars, oecVars>>

\* Python's None, for the optional fields
None == [py_none |-> TRUE]

(***************************************************************************)
(* Bounds of the model.                                                    *)
(***************************************************************************)
MaxTextLen   == 3    \* longest text handed to _chunk_text in SpecChunk
MaxChunkSize == 2    \* largest chunk_size drawn in SpecChunk
MaxOverlap   == 2    \* largest chunk_overlap drawn in SpecChunk
MaxIndex     == 5    \* cap on the chunk counter of a loop that never ends
MaxTopK      == 1    \* largest top_k passed to retrieve
MaxStat      == 2    \* largest size and mtime drawn in SpecSig
MaxQueryLen  == 3    \* longest query handed to _match_documents in SpecMatch
MaxDocs      == 3    \* largest max_docs drawn in SpecMatch
MaxHits      == 3    \* largest top_k passed to search in SpecSearch

(***************************************************************************)
(* Characters.                                                             *)
(***************************************************************************)
SP == 32     \* " "
NL == 10     \* "\n"
HYPHEN == 45 \* "-"
DOT == 46    \* "."
CH_a == 97   \* "a"
CH_b == 98   \* "b"

\* str.isspace for the code points str.strip() removes
IsSpace(c) ==
    \/ c \in 9..13
    \/ c \in 28..32
    \/ c \in {133, 160, 5760, 8232, 8233, 8239, 8287, 12288}
    \/ c \in 8192..8202

Min(a, b) == IF a < b THEN a ELSE b
Max(a, b) == IF a > b THEN a ELSE b

\* text[a:b] for 0 <= a, b (Python slice, 0-based, end exclusive)
Slice(s, a, b) == SubSeq(s, a + 1, Min(b, Len(s)))

RECURSIVE LStrip(_)
LStrip(s) ==
    IF s = <<>> THEN s
    ELSE IF IsSpace(Head(s)) THEN LStrip(Tail(s)) ELSE s

RECURSIVE RStrip(_)
RStrip(s) ==
    IF s = <<>> THEN s
    ELSE IF IsSpace(s[Len(s)]) THEN RStrip(SubSeq(s, 1, Len(s) - 1)) ELSE s

\* str.strip()
Strip(s) == RStrip(LStrip(s))

\* str(n) for n >= 0
RECURSIVE IntToStr(_)
IntToStr(n) ==
    IF n < 10 THEN <<48 + n>>
    ELSE Append(IntToStr(n \div 10), 48 + (n % 10))

(***************************************************************************)
(* Chunk and KnowledgeBase._chunk_text (knowledge_base.py 126-143).        *)
(***************************************************************************)
Chunk(cid, content, src, page) ==
    [chunk_id |-> cid, content |-> content, source |-> src, page |-> page]

\* f"{source}-{index}"
ChunkId(src, i) == src \o <<HYPHEN>> \o IntToStr(i)

\* line 134 as a bug would have it: the window is not cut at chunk_size
\* (used to test the claims)
WindowEndWholeText(t, st, cs) == Len(t)

\* line 134: end = min(start + self.chunk_size, length)
WindowEnd(t, st, cs) == Min(st + cs, Len(t))

\* line 140 as a bug would have it: the overlap is added (used to test the
\* claims)
NextStartPastEnd(e, st, co) == Max(e + co, 0)

\* lines 140-142: start = end - self.chunk_overlap; if start < 0: start = 0
NextStart(e, st, co) == Max(e - co, 0)

\* lines 136-139 as a bug would have them: index += 1 stands outside the
\* `if content` (used to test the claims)
ChunkBodyCountingBlank(t, src, cs, co, s) ==
    LET e       == WindowEnd(t, s.start, cs)
        content == Strip(Slice(t, s.start, e))
    IN  [start  |-> NextStart(e, s.start, co),
         index  |-> s.index + 1,
         chunks |-> IF content # <<>>
                    THEN Append(s.chunks,
                                Chunk(ChunkId(src, s.index), content, src, s.index))
                    ELSE s.chunks]

\* one iteration of the while body, lines 134-142, on the loop state
ChunkBody(t, src, cs, co, s) ==
    LET e       == WindowEnd(t, s.start, cs)
        content == Strip(Slice(t, s.start, e))
    IN  [start  |-> NextStart(e, s.start, co),
         index  |-> IF content # <<>> THEN s.index + 1 ELSE s.index,
         chunks |-> IF content # <<>>
                    THEN Append(s.chunks,
                                Chunk(ChunkId(src, s.index), content, src, s.index))
                    ELSE s.chunks]

\* ---- _chunk_text as a process: one action per loop iteration ----

\* lines 127-132: chunks = []; if not text: return chunks; start = 0; index = 0
ChunkEntry ==
    /\ chunk_pc = "entry"
    /\ chunk_pc' = IF text = <<>> THEN "returned" ELSE "while"
    /\ UNCHANGED <<text, source, start, index, chunks, visited, cfgVars, kbVars, sigVars, fnVars, oecVars>>

\* lines 133-142: one pass through the body while start < length.  The
\* guard on index only cuts off a loop that grows the list for ever.
ChunkIter ==
    /\ chunk_pc = "while"
    /\ start < Len(text)
    /\ index < MaxIndex
    /\ LET n == ChunkBody(text, source, chunk_size, chunk_overlap,
                          [start |-> start, index |-> index, chunks |-> chunks])
       IN  /\ start'  = n.start
           /\ index'  = n.index
           /\ chunks' = n.chunks
    /\ visited' = visited \cup {[start |-> start,
                                  end   |-> WindowEnd(text, start, chunk_size)]}
    /\ UNCHANGED <<text, source, chunk_pc, cfgVars, kbVars, sigVars, fnVars, oecVars>>

\* line 133 false, line 143: return chunks
ChunkReturn ==
    /\ chunk_pc = "while"
    /\ ~(start < Len(text))
    /\ chunk_pc' = "returned"
    /\ UNCHANGED <<text, source, start, index, chunks, visited, cfgVars, kbVars, sigVars, fnVars, oecVars>>

\* the knowledge base and the file system play no part in this specification
KBUnused ==
    /\ dataset = None
    /\ text_file = None
    /\ meta_file = None
    /\ index_cache = {}
    /\ self_chunks = <<>>
    /\ store = None
    /\ retriever = None
    /\ current_index_key = None
    /\ call = None
    /\ remembered = None

SigUnused ==
    /\ sig_in = None
    /\ sig_out = None

FnUnused ==
    /\ fn_args = None
    /\ fn_result = None

\* no OverEngineeredCache is constructed in this specification
OECUnused ==
    /\ cache = None
    /\ eviction_policy = None
    /\ max_size = 0
    /\ default_ttl = None
    /\ event_log = None
    /\ now = 0

ChunkAlphabet == {CH_a, SP}

RECURSIVE SeqsUpTo(_, _)
SeqsUpTo(S, n) ==
    IF n = 0 THEN {<<>>}
    ELSE LET shorter == SeqsUpTo(S, n - 1)
         IN  shorter \cup {Append(s, c) : s \in {x \in shorter : Len(x) = n - 1}, c \in S}

InitChunk ==
    /\ chunk_size \in 1..MaxChunkSize
    /\ chunk_overlap \in 0..MaxOverlap
    /\ max_pages = 1
    /\ max_docs = 1
    /\ text \in SeqsUpTo(ChunkAlphabet, MaxTextLen)
    /\ source = <<CH_a>>
    /\ start = 0
    /\ index = 0
    /\ chunks = <<>>
    /\ chunk_pc = "entry"
    /\ visited = {}
    /\ KBUnused
    /\ SigUnused
    /\ FnUnused
    /\ OECUnused

NextChunk == ChunkEntry \/ ChunkIter \/ ChunkReturn

SpecChunk == InitChunk /\ [][NextChunk]_vars

\* the loop is scheduled as long as its condition holds
FairSpecChunk == SpecChunk /\ WF_vars(NextChunk)

(***************************************************************************)
(* C1: _chunk_text terminates for every text and every configuration with  *)
(* chunk_size >= 1 and chunk_overlap >= 0: every loop iteration moves the  *)
(* window start strictly forward, so the loop ends.                        *)
(***************************************************************************)
C1_StartMakesProgress == [][ChunkIter => start' > start]_vars

\* C1, termination itself: under fair scheduling the call returns
C1_Terminates == <>(chunk_pc = "returned")

(***************************************************************************)
(* C16: at every point of the loop of _chunk_text, every chunk emitted so  *)
(* far has a content that is not empty and not longer than chunk_size, for *)
(* every text, chunk_size >= 1 and chunk_overlap >= 0.                     *)
(***************************************************************************)
C16_ChunkContentBounded ==
    \A i \in DOMAIN chunks :
        /\ chunks[i].content # <<>>
        /\ Len(chunks[i].content) <= chunk_size

\* a full window was emitted next to one that trimming made shorter
C16_Witness ==
    /\ chunk_size >= 2
    /\ \E i, j \in DOMAIN chunks :
          /\ Len(chunks[i].content) = chunk_size
          /\ Len(chunks[j].content) < chunk_size
    /\ \E w \in visited :
          /\ w.end - w.start = chunk_size
          /\ Len(Strip(Slice(text, w.start, w.end))) \in 1..(chunk_size - 1)

\* the character indices of the text lying in a visited window
Covered == {i \in 0..(Len(text) - 1) : \E w \in visited : w.start <= i /\ i < w.end}

(***************************************************************************)
(* C17: for chunk_size > chunk_overlap >= 0 the windows visited by         *)
(* _chunk_text leave no gap: the first starts at 0, a window that does not *)
(* reach the end of the text has length chunk_size and the next one starts *)
(* chunk_size - chunk_overlap later, at or before its end, and once a      *)
(* window has reached the end every character index lies in a window.      *)
(***************************************************************************)
C17_NextWindow ==
    (ChunkIter /\ chunk_size > chunk_overlap)
        => LET e == WindowEnd(text, start, chunk_size)
           IN  /\ visited = {} => start = 0
               /\ e < Len(text)
                    => /\ e - start = chunk_size
                       /\ start' = start + chunk_size - chunk_overlap
                       /\ start' <= e
               /\ e = Len(text) => Covered' = 0..(Len(text) - 1)

C17_WindowsLeaveNoGap ==
    /\ [][C17_NextWindow]_vars
    /\ []((chunk_size > chunk_overlap /\ chunk_pc = "returned")
            => Covered = 0..(Len(text) - 1))

\* overlapping windows that have reached the end of the text
C17_Witness ==
    /\ chunk_size > chunk_overlap
    /\ chunk_overlap >= 1
    /\ Cardinality(visited) >= 2
    /\ \E w \in visited : w.end = Len(text)
    /\ \E w \in visited : w.end < Len(text)

(***************************************************************************)
(* C18: the chunks _chunk_text emits for a source carry the pages 0, 1,    *)
(* 2, ... in emission order, without gap or repeat, and the chunk_id       *)
(* "{source}-{page}"; a window that is empty after trimming emits no chunk *)
(* and consumes no page index.                                             *)
(***************************************************************************)
C18_BlankWindow ==
    (ChunkIter /\ Strip(Slice(text, start, WindowEnd(text, start, chunk_size))) = <<>>)
        => /\ chunks' = chunks
           /\ index' = index

C18_PagesAreSequential ==
    /\ [](/\ index = Len(chunks)
          /\ \A i \in DOMAIN chunks :
                /\ chunks[i].page = i - 1
                /\ chunks[i].source = source
                /\ chunks[i].chunk_id = source \o <<HYPHEN>> \o IntToStr(i - 1))
    /\ [][C18_BlankWindow]_vars

\* two chunks with a blank window between them
C18_Witness ==
    /\ Len(chunks) >= 2
    /\ \E w \in visited :
          /\ Strip(Slice(text, w.start, w.end)) = <<>>
          /\ w.start > 0
          /\ w.end < Len(text)


(***************************************************************************)
(* tokenize (vector_store.py 13-17): the regex                             *)
(* [U+4E00-U+9FFF]|[a-zA-Z0-9]+ scanned left to right, then str.lower.    *)
(***************************************************************************)
IsCJK(c) == c \in 19968..40959

IsAlnum(c) == c \in 48..57 \/ c \in 65..90 \/ c \in 97..122

\* str.lower as a bug would have it: the case is kept (used to test the
\* claims)
LowerKeepingCase(c) == c

Lower(c) == IF c \in 65..90 THEN c + 32 ELSE c

\* run: the ASCII run being read; acc: the tokens found so far
RECURSIVE TokenScan(_, _, _)
TokenScan(s, run, acc) ==
    LET closed == IF run = <<>> THEN acc ELSE Append(acc, run)
    IN  IF s = <<>> THEN closed
        ELSE IF IsAlnum(Head(s))
             THEN TokenScan(Tail(s), Append(run, Lower(Head(s))), acc)
        ELSE IF IsCJK(Head(s))
             THEN TokenScan(Tail(s), <<>>, Append(closed, <<Head(s)>>))
        ELSE TokenScan(Tail(s), <<>>, closed)

\* the pattern of line 13 as a bug would have it, without its first
\* alternative: an ideograph is no token (used to test the claims)
tokenize_ascii_only(s) ==
    TokenScan([i \in 1..Len(s) |-> IF IsCJK(s[i]) THEN 32 ELSE s[i]], <<>>, <<>>)

tokenize(s) == TokenScan(s, <<>>, <<>>)

Range(f) == {f[i] : i \in DOMAIN f}

(***************************************************************************)
(* Orderings: sorted() on paths and names, list.sort(reverse=True).        *)
(***************************************************************************)
RECURSIVE LexLess(_, _)
LexLess(a, b) ==
    IF b = <<>> THEN FALSE
    ELSE IF a = <<>> THEN TRUE
    ELSE IF Head(a) # Head(b) THEN Head(a) < Head(b)
    ELSE LexLess(Tail(a), Tail(b))

\* sorted(S) for a set of distinct names
RECURSIVE SortedNames(_)
SortedNames(S) ==
    IF S = {} THEN <<>>
    ELSE LET m == CHOOSE x \in S : \A y \in S \ {x} : LexLess(x, y)
         IN  <<m>> \o SortedNames(S \ {m})

\* stable insertion of x behind every element whose key is not smaller
RECURSIVE InsertByScoreDesc(_, _)
InsertByScoreDesc(s, x) ==
    IF s = <<>> THEN <<x>>
    ELSE IF Head(s).score >= x.score
         THEN <<Head(s)>> \o InsertByScoreDesc(Tail(s), x)
         ELSE <<x>> \o s

\* list.sort(key=lambda item: item[1], reverse=True): descending and stable
RECURSIVE SortByScoreDesc(_)
SortByScoreDesc(s) ==
    IF s = <<>> THEN <<>>
    ELSE InsertByScoreDesc(SortByScoreDesc(SubSeq(s, 1, Len(s) - 1)), s[Len(s)])

\* stable insertion of a file record by its name, ascending
RECURSIVE InsertByName(_, _)
InsertByName(s, x) ==
    IF s = <<>> THEN <<x>>
    ELSE IF LexLess(x.name, Head(s).name)
         THEN <<x>> \o s
         ELSE <<Head(s)>> \o InsertByName(Tail(s), x)

\* sorted(files, key=lambda item: item["name"])
RECURSIVE SortByName(_)
SortByName(s) ==
    IF s = <<>> THEN <<>>
    ELSE InsertByName(SortByName(SubSeq(s, 1, Len(s) - 1)), s[Len(s)])

\* s[:n] as a bug would have it: nothing is cut (used to test the claims)
TakeAll(s, n) == s

\* s[:n] for n >= 0
Take(s, n) == SubSeq(s, 1, Min(n, Len(s)))


(***************************************************************************)
(* The dataset directory.  A file is its stat result and what PyPDF2 makes *)
(* of it: whether PdfReader opens it, and for each page whether            *)
(* extract_text returns or raises.                                         *)
(***************************************************************************)
PDF == <<DOT, 112, 100, 102>>    \* ".pdf"
NameA == <<CH_a>> \o PDF
NameB == <<CH_b>> \o PDF
Names == {NameA, NameB}

\* Path.stem of a name matched by glob("*.pdf"): the name without its last
\* suffix; a name that begins with its only dot has no suffix
Stem(name) ==
    IF Len(name) > Len(PDF) THEN SubSeq(name, 1, Len(name) - Len(PDF)) ELSE name

Page(ok, t) == [ok |-> ok, text |-> t]

File(size, mtime, readable, pages) ==
    [size |-> size, mtime |-> mtime, readable |-> readable, pages |-> pages]

\* the contents a.pdf takes in the model
FileA1 == File(1, 1, TRUE, <<Page(TRUE, <<CH_a>>)>>)
FileA2 == File(2, 2, TRUE, <<Page(TRUE, <<CH_a>>), Page(TRUE, <<CH_b>>)>>)
\* not a PDF: PdfReader raises
FileA3 == File(3, 3, FALSE, <<>>)
\* the second page's extract_text raises
FileA4 == File(4, 4, TRUE, <<Page(TRUE, <<CH_a>>), Page(FALSE, <<>>)>>)
\* the content b.pdf takes in the model
FileB1 == File(1, 1, TRUE, <<Page(TRUE, <<CH_b>>)>>)

FileVersions(name) ==
    IF name = NameA THEN {FileA1, FileA2, FileA3, FileA4} ELSE {FileB1}

\* a dataset directory that does not exist
NoDirectoryOver(S) == [exists |-> FALSE, files |-> [n \in S |-> None]]

NoDirectory == NoDirectoryOver(Names)

(***************************************************************************)
(* KnowledgeBase._list_pdfs and _match_documents (knowledge_base.py 54-89) *)
(***************************************************************************)
\* line 57 as a bug would have it: the listing is not in sorted order (used
\* to test the claims)
list_pdfs_unsorted(ds) ==
    IF ~ds.exists THEN <<>>
    ELSE LET l == SortedNames({n \in DOMAIN ds.files : ds.files[n] # None})
         IN  [i \in 1..Len(l) |-> l[Len(l) + 1 - i]]

list_pdfs(ds) ==
    IF ~ds.exists THEN <<>>
    ELSE SortedNames({n \in DOMAIN ds.files : ds.files[n] # None})

Items(ranked) == [i \in 1..Len(ranked) |-> ranked[i].item]

\* lines 70 and 83 as a bug would have them: the test of the score is lost
\* (used to test the claims)
ScoredKeepingZero(pdfs, score) ==
    [i \in 1..Len(pdfs) |-> [item |-> pdfs[i], score |-> score[pdfs[i]]]]

\* the (pdf, score) pairs with a non-zero score, in listing order
Scored(pdfs, score) ==
    SelectSeq([i \in 1..Len(pdfs) |-> [item |-> pdfs[i], score |-> score[pdfs[i]]]],
              LAMBDA r : r.score # 0)

\* _match_documents, lines 59-89: the list returned and the return
\* statement it comes from (line 62, 74, 86 or 89)
MatchOutcome(ds, query, maxdocs) ==
    LET pdfs         == list_pdfs(ds)
        query_tokens == Range(tokenize(query))
        overlap      == [pdf \in Range(pdfs) |->
                            Cardinality(Range(tokenize(Stem(pdf))) \cap query_tokens)]
        ranked       == SortByScoreDesc(Scored(pdfs, overlap))
        cjk_chars    == {c \in Range(query) : IsCJK(c)}
        hits         == [pdf \in Range(pdfs) |->
                            Cardinality({c \in cjk_chars : c \in Range(Stem(pdf))})]
        scored       == SortByScoreDesc(Scored(pdfs, hits))
    IN  IF pdfs = <<>> THEN [rule |-> "empty", pdfs |-> <<>>]
        ELSE IF ranked # <<>>
             THEN [rule |-> "tokens", pdfs |-> Items(Take(ranked, maxdocs))]
        ELSE IF cjk_chars # {} /\ scored # <<>>
             THEN [rule |-> "cjk", pdfs |-> Items(Take(scored, maxdocs))]
        ELSE [rule |-> "first", pdfs |-> Take(pdfs, Min(maxdocs, Len(pdfs)))]

match_documents(ds, query, maxdocs) == MatchOutcome(ds, query, maxdocs).pdfs

(***************************************************************************)
(* KnowledgeBase._index_signature (knowledge_base.py 154-172).  The        *)
(* SHA-256 digest of the JSON payload stands for the payload itself: the   *)
(* hash is taken to be injective.                                          *)
(***************************************************************************)
FileEntry(ds, pdf) ==
    [name |-> pdf, size |-> ds.files[pdf].size, mtime |-> ds.files[pdf].mtime]

\* the payload with the files left in candidate order (used to test the claims)
IndexPayloadUnsorted(ds, pdfs, cs, co, mp) ==
    [files         |-> [i \in 1..Len(pdfs) |-> FileEntry(ds, pdfs[i])],
     chunk_size    |-> cs,
     chunk_overlap |-> co,
     max_pages     |-> mp]

\* lines 155-170
IndexPayload(ds, pdfs, cs, co, mp) ==
    [files         |-> SortByName([i \in 1..Len(pdfs) |-> FileEntry(ds, pdfs[i])]),
     chunk_size    |-> cs,
     chunk_overlap |-> co,
     max_pages     |-> mp]

\* line 171
index_signature(ds, pdfs, cs, co, mp) ==
    [sha256 |-> IndexPayload(ds, pdfs, cs, co, mp)]


(***************************************************************************)
(* The text cache and KnowledgeBase._read_pdf_text (knowledge_base.py      *)
(* 100-124).  The cache key is a hash of the path, so one entry per file.  *)
(***************************************************************************)
CR == 13    \* "\r"

\* Path.read_text: universal newlines turn "\r\n" and "\r" into "\n"
RECURSIVE ReadTextFile(_)
ReadTextFile(s) ==
    IF s = <<>> THEN <<>>
    ELSE IF Head(s) = CR
         THEN IF Len(s) >= 2 /\ s[2] = NL
              THEN <<NL>> \o ReadTextFile(Tail(Tail(s)))
              ELSE <<NL>> \o ReadTextFile(Tail(s))
         ELSE <<Head(s)>> \o ReadTextFile(Tail(s))

\* "\n".join(texts)
RECURSIVE JoinLines(_)
JoinLines(texts) ==
    IF texts = <<>> THEN <<>>
    ELSE IF Len(texts) = 1 THEN texts[1]
    ELSE texts[1] \o <<NL>> \o JoinLines(Tail(texts))

\* what the two write_text calls of lines 119-123 may do
WriteOutcomes == {"written", "text_write_fails", "meta_write_fails"}

\* lines 112-113: reader.pages[: self.max_pages]
PagesRead(f, mp) == Take(f.pages, mp)

\* the result of one call: whether it raised, the text returned, the text
\* cache it leaves, whether a cache write failed and was passed over, and
\* whether the call went on to PdfReader (line 112)
ReadPdfText(ds, pdf, tf, mf, mp, w) ==
    LET f     == ds.files[pdf]
        meta  == [mtime |-> f.mtime, size |-> f.size]
        pages == PagesRead(f, mp)
        full_text == JoinLines([i \in 1..Len(pages) |-> pages[i].text])
        raise(opened) ==
            [raised |-> TRUE, text |-> <<>>, text_file |-> tf, meta_file |-> mf,
             write_failed |-> FALSE, pdf_opened |-> opened]
    IN  IF f = None THEN raise(FALSE)                \* line 102: stat() fails
        ELSE IF tf[pdf] # None /\ mf[pdf] # None /\ mf[pdf] = meta
             THEN [raised |-> FALSE, text |-> ReadTextFile(tf[pdf].text),
                   text_file |-> tf, meta_file |-> mf, write_failed |-> FALSE,
                   pdf_opened |-> FALSE]
        ELSE IF ~f.readable THEN raise(TRUE)         \* line 112
        ELSE IF \E i \in 1..Len(pages) : ~pages[i].ok THEN raise(TRUE)   \* line 116
        ELSE [raised    |-> FALSE,
              text      |-> full_text,
              text_file |-> IF w = "text_write_fails" THEN tf
                            ELSE [tf EXCEPT ![pdf] = [text |-> full_text]],
              meta_file |-> IF w = "written"
                            THEN [mf EXCEPT ![pdf] = meta] ELSE mf,
              write_failed |-> w # "written",      \* lines 122-123
              pdf_opened |-> TRUE]

(***************************************************************************)
(* _chunk_text run to its end.  The start is a function of the previous    *)
(* start alone and lies in 0..length-1 while the loop runs, so a loop that *)
(* is still running after length iterations never ends.                    *)
(***************************************************************************)
RECURSIVE ChunkLoop(_, _, _, _, _, _)
ChunkLoop(t, src, cs, co, s, fuel) ==
    IF ~(s.start < Len(t)) THEN [diverges |-> FALSE, chunks |-> s.chunks]
    ELSE IF fuel = 0 THEN [diverges |-> TRUE, chunks |-> <<>>]
    ELSE ChunkLoop(t, src, cs, co, ChunkBody(t, src, cs, co, s), fuel - 1)

chunk_text(t, src, cs, co) ==
    IF t = <<>> THEN [diverges |-> FALSE, chunks |-> <<>>]
    ELSE ChunkLoop(t, src, cs, co,
                   [start |-> 0, index |-> 0, chunks |-> <<>>], Len(t))

(***************************************************************************)
(* The loop of KnowledgeBase._build_index (knowledge_base.py 146-149):     *)
(* status "ok" with the chunk list, "raised" when a read raised,           *)
(* "diverged" when a _chunk_text never ends; with the text cache left.     *)
(***************************************************************************)
RECURSIVE CollectChunks(_, _, _, _, _, _, _, _, _)
CollectChunks(ds, pdfs, tf, mf, acc, cs, co, mp, w) ==
    IF pdfs = <<>>
    THEN [status |-> "ok", chunks |-> acc, text_file |-> tf, meta_file |-> mf,
          write_failed |-> FALSE]
    ELSE LET r == ReadPdfText(ds, Head(pdfs), tf, mf, mp, w[Head(pdfs)])
             c == chunk_text(r.text, Stem(Head(pdfs)), cs, co)
             rest == CollectChunks(ds, Tail(pdfs), r.text_file, r.meta_file,
                                   acc \o c.chunks, cs, co, mp, w)
         IN  IF r.raised
             THEN [status |-> "raised", chunks |-> <<>>,
                   text_file |-> r.text_file, meta_file |-> r.meta_file,
                   write_failed |-> FALSE]
             ELSE IF c.diverges
             THEN [status |-> "diverged", chunks |-> <<>>,
                   text_file |-> r.text_file, meta_file |-> r.meta_file,
                   write_failed |-> r.write_failed]
             ELSE [rest EXCEPT !.write_failed = @ \/ r.write_failed]

\* the loop as a bug would have it: an empty candidate list is refused
\* (used to test the claims)
build_chunks_refusing_empty(ds, pdfs, tf, mf, cs, co, mp, w) ==
    IF pdfs = <<>>
    THEN [status |-> "raised", chunks |-> <<>>, text_file |-> tf, meta_file |-> mf,
          write_failed |-> FALSE]
    ELSE CollectChunks(ds, pdfs, tf, mf, <<>>, cs, co, mp, w)

\* lines 146-149: chunks = []; for pdf in pdfs: ...
build_chunks(ds, pdfs, tf, mf, cs, co, mp, w) ==
    CollectChunks(ds, pdfs, tf, mf, <<>>, cs, co, mp, w)

(***************************************************************************)
(* BM25VectorStore (vector_store.py 28-81).  Scores are kept in fixed      *)
(* point, in millionths; k1 = K1_NUM/K1_DEN and b = B_NUM/B_DEN.           *)
(***************************************************************************)
K1_NUM == 3
K1_DEN == 2
B_NUM == 3
B_DEN == 4

\* round(10^6 * ln n) for n = 1..40
LnMicro ==
    <<0, 693147, 1098612, 1386294, 1609438, 1791759, 1945910, 2079442,
      2197225, 2302585, 2397895, 2484907, 2564949, 2639057, 2708050, 2772589,
      2833213, 2890372, 2944439, 2995732, 3044522, 3091042, 3135494, 3178054,
      3218876, 3258097, 3295837, 3332205, 3367296, 3401197, 3433987, 3465736,
      3496508, 3526361, 3555348, 3583519, 3610918, 3637586, 3663562, 3688879>>

\* sum(f(s[i]))
RECURSIVE SumSeq(_)
SumSeq(s) == IF s = <<>> THEN 0 ELSE Head(s) + SumSeq(Tail(s))

\* the number of positions of s holding x
Count(s, x) == Cardinality({i \in DOMAIN s : s[i] = x})

\* the methods class BM25VectorStore defines
StoreMethods == {"__init__", "_build_index", "_idf", "search"}

\* lines 47-50 as a bug would have them: the document frequency counts every
\* occurrence of a token, not every chunk that holds it (used to test the
\* claims)
BuildIndexStepCountingRepeats(st, chunk) ==
    LET tokens == tokenize(chunk.content)
        seen   == Range(tokens)
    IN  [st EXCEPT
           !.doc_tokens = Append(@, tokens),
           !.total_len  = @ + Len(tokens),
           !.doc_freq   = [t \in DOMAIN @ \cup seen |->
                             (IF t \in DOMAIN @ THEN @[t] ELSE 0) + Count(tokens, t)]]

\* one iteration of the loop of _build_index, lines 44-50
BuildIndexStep(st, chunk) ==
    LET tokens == tokenize(chunk.content)
        seen   == Range(tokens)
    IN  [st EXCEPT
           !.doc_tokens = Append(@, tokens),
           !.total_len  = @ + Len(tokens),
           \* self._doc_freq[token] = self._doc_freq.get(token, 0) + 1
           !.doc_freq   = [t \in DOMAIN @ \cup seen |->
                             (IF t \in DOMAIN @ THEN @[t] ELSE 0)
                               + (IF t \in seen THEN 1 ELSE 0)]]

\* the loop of _build_index over the chunks from position i on
RECURSIVE BuildIndexLoop(_, _, _)
BuildIndexLoop(st, chs, i) ==
    IF i > Len(chs) THEN st
    ELSE BuildIndexLoop(BuildIndexStep(st, chs[i]), chs, i + 1)

\* __init__ and _build_index, lines 33-51
BM25VectorStore(chs) ==
    LET built == BuildIndexLoop([doc_tokens |-> <<>>, doc_freq |-> <<>>, total_len |-> 0],
                                chs, 1)
    IN  [chunks      |-> chs,
         doc_tokens  |-> built.doc_tokens,
         doc_freq    |-> built.doc_freq,
         \* total_len / max(len(self.chunks), 1), kept as a fraction
         avg_doc_len |-> [num |-> built.total_len, den |-> Max(Len(chs), 1)]]

\* _idf as a bug would have it, without the "+ 1" of line 56: the classic
\* ln((n - df + 0.5) / (df + 0.5)), negative for a term of most documents
\* (used to test the claims)
IdfWithoutOne(st, term) ==
    LET n_docs == Max(Len(st.chunks), 1)
        df     == IF term \in DOMAIN st.doc_freq THEN st.doc_freq[term] ELSE 0
    IN  LnMicro[2 * n_docs - 2 * df + 1] - LnMicro[2 * df + 1]

\* _idf, lines 53-56: ln((n - df + 0.5) / (df + 0.5) + 1) = ln((2n + 2) / (2df + 1))
Idf(st, term) ==
    LET n_docs == Max(Len(st.chunks), 1)
        df     == IF term \in DOMAIN st.doc_freq THEN st.doc_freq[term] ELSE 0
    IN  LnMicro[2 * n_docs + 2] - LnMicro[2 * df + 1]

\* lines 70-75 as a bug would have them: the term frequency is not counted,
\* a term scores as if it stood once in the document (used to test the
\* claims)
DocScoreIgnoringTf(st, idx, q_tokens) ==
    LET tokens  == st.doc_tokens[idx]
        doc_len == Len(tokens)
        T == IF st.avg_doc_len.num = 0 THEN 1 ELSE st.avg_doc_len.num
        D == IF st.avg_doc_len.num = 0 THEN 1 ELSE st.avg_doc_len.den
        term_score(term) ==
            IF Count(tokens, term) = 0 THEN 0
            ELSE (Idf(st, term) * (K1_NUM + K1_DEN) * B_DEN * T)
                 \div (K1_DEN * B_DEN * T
                       + K1_NUM * ((B_DEN - B_NUM) * T + B_NUM * doc_len * D))
    IN  SumSeq([j \in 1..Len(q_tokens) |-> term_score(q_tokens[j])])

\* lines 64-75: the score of document idx for the query tokens
DocScore(st, idx, q_tokens) ==
    LET tokens  == st.doc_tokens[idx]
        doc_len == Len(tokens)
        \* (self._avg_doc_len or 1) as a fraction T / D
        T == IF st.avg_doc_len.num = 0 THEN 1 ELSE st.avg_doc_len.num
        D == IF st.avg_doc_len.num = 0 THEN 1 ELSE st.avg_doc_len.den
        term_score(term) ==
            IF Count(tokens, term) = 0 THEN 0
            ELSE LET tf == Count(tokens, term)
                 IN  (Idf(st, term) * tf * (K1_NUM + K1_DEN) * B_DEN * T)
                     \div (tf * K1_DEN * B_DEN * T
                           + K1_NUM * ((B_DEN - B_NUM) * T + B_NUM * doc_len * D))
    IN  SumSeq([j \in 1..Len(q_tokens) |-> term_score(q_tokens[j])])

\* lines 76-77 as a bug would have them: the test score > 0 is lost, and
\* chunks that score nothing fill the result up to top_k (used to test the
\* claims)
search_keeping_zero(st, query, top_k) ==
    LET q_tokens == tokenize(query)
        all      == [idx \in 1..Len(st.doc_tokens) |->
                       [item  |-> idx,
                        score |-> IF st.doc_tokens[idx] = <<>> THEN 0
                                  ELSE DocScore(st, idx, q_tokens)]]
        scores   == SortByScoreDesc(all)
        top      == Take(scores, top_k)
    IN  [i \in 1..Len(top) |-> [chunk |-> st.chunks[top[i].item], score |-> top[i].score]]

\* line 79 as a bug would have it: the sort is ascending (used to test the
\* claims)
search_ascending(st, query, top_k) ==
    LET q_tokens == tokenize(query)
        all      == [idx \in 1..Len(st.doc_tokens) |->
                       [item  |-> idx,
                        score |-> IF st.doc_tokens[idx] = <<>> THEN 0
                                  ELSE DocScore(st, idx, q_tokens)]]
        sorted   == SortByScoreDesc(SelectSeq(all, LAMBDA r : r.score > 0))
        scores   == [i \in 1..Len(sorted) |-> sorted[Len(sorted) + 1 - i]]
        top      == Take(scores, top_k)
    IN  [i \in 1..Len(top) |-> [chunk |-> st.chunks[top[i].item], score |-> top[i].score]]

\* search, lines 58-81: (chunk, score) pairs
search(st, query, top_k) ==
    LET q_tokens == tokenize(query)
        all      == [idx \in 1..Len(st.doc_tokens) |->
                       [item  |-> idx,
                        score |-> IF st.doc_tokens[idx] = <<>> THEN 0
                                  ELSE DocScore(st, idx, q_tokens)]]
        scores   == SortByScoreDesc(SelectSeq(all, LAMBDA r : r.score > 0))
        top      == Take(scores, top_k)
    IN  [i \in 1..Len(top) |-> [chunk |-> st.chunks[top[i].item], score |-> top[i].score]]

\* Retriever (retriever.py 11-17)
Retriever(st) == [store |-> st]

RetrieverRetrieve(r, query, top_k) ==
    LET results == search(r.store, query, top_k)
    IN  [i \in 1..Len(results) |-> results[i].chunk]


(***************************************************************************)
(* The index cache: KnowledgeBase._index_paths, _load_index, _save_index   *)
(* (knowledge_base.py 174-200).  An entry is one file: the pickle or the   *)
(* JSON metadata stored under a signature.                                 *)
(***************************************************************************)
IndexFile(sig, kind, content) == [signature |-> sig, kind |-> kind, content |-> content]

HasIndexFile(ic, sig, kind) == \E e \in ic : e.signature = sig /\ e.kind = kind

\* _load_index: whether it is a hit, and the store it installs
\* bytes that pickle.loads rejects
CorruptPickle == [unpicklable |-> TRUE]

\* the pickle stored under a signature
PickleOf(ic, sig) == (CHOOSE e \in ic : e.signature = sig /\ e.kind = "pkl").content

LoadIndexResult(ic, sig) ==
    IF ~HasIndexFile(ic, sig, "pkl") \/ ~HasIndexFile(ic, sig, "json")
    THEN [hit |-> FALSE, store |-> None]                 \* lines 181-182
    ELSE IF PickleOf(ic, sig) = CorruptPickle
    THEN [hit |-> FALSE, store |-> None]                 \* line 184 raises, 189-190
    ELSE IF "from_state" \notin StoreMethods
    THEN [hit |-> FALSE, store |-> None]                 \* line 185 raises, 189-190
    ELSE [hit |-> TRUE, store |-> PickleOf(ic, sig)]

\* _save_index: the index cache it leaves
SaveIndexResult(ic, st, sig, meta) ==
    IF st = None THEN ic                                 \* lines 193-194
    ELSE IF "to_state" \notin StoreMethods THEN ic       \* line 197 raises, 199-200
    ELSE {e \in ic : e.signature # sig}
         \cup {IndexFile(sig, "pkl", st), IndexFile(sig, "json", meta)}

(***************************************************************************)
(* KnowledgeBase.retrieve (knowledge_base.py 202-214), one activation per  *)
(* caller.  The steps are the places where the activation reads or writes  *)
(* the instance or the disk.                                               *)
(***************************************************************************)
Threads == {1, 2}

QueryA == <<CH_a>>
QueryB == <<CH_b>>
QueryC == <<99>>           \* "c": matches no file name
Queries == {QueryA, QueryB, QueryC}
TopKs == 0..MaxTopK

Idle == [pc |-> "idle", query |-> <<>>, top_k |-> 0, pdfs |-> <<>>,
         signature |-> None, result |-> <<>>, ops |-> {}]

AtRest(t) == call[t].pc \in {"idle", "returned", "raised"}

\* lines 203-205 as a bug would have them: the comparison with the active
\* signature is lost and every activation resolves its index again (used to
\* test the claims)
RetrieveCallAlwaysResolving(t, query, top_k) ==
    /\ AtRest(t)
    /\ LET pdfs == match_documents(dataset, query, max_docs)
           signature == index_signature(dataset, pdfs, chunk_size, chunk_overlap, max_pages)
       IN  call' = [call EXCEPT ![t] =
                       [pc        |-> "load",
                        query     |-> query,
                        top_k     |-> top_k,
                        pdfs      |-> pdfs,
                        signature |-> signature,
                        result    |-> <<>>,
                        ops       |-> {}]]
    /\ UNCHANGED <<cfgVars, chunkVars, diskVars, selfVars, remembered, sigVars, fnVars, oecVars>>

\* lines 203-205: match, sign, compare with the active signature
RetrieveCall(t, query, top_k) ==
    /\ AtRest(t)
    /\ LET pdfs == match_documents(dataset, query, max_docs)
           signature == index_signature(dataset, pdfs, chunk_size, chunk_overlap, max_pages)
       IN  call' = [call EXCEPT ![t] =
                       [pc        |-> IF current_index_key # signature
                                      THEN "load" ELSE "search",
                        query     |-> query,
                        top_k     |-> top_k,
                        pdfs      |-> pdfs,
                        signature |-> signature,
                        result    |-> <<>>,
                        ops       |-> {}]]
    /\ UNCHANGED <<cfgVars, chunkVars, diskVars, selfVars, remembered, sigVars, fnVars, oecVars>>

\* line 206: loaded = self._load_index(signature)
LoadIndex(t) ==
    /\ call[t].pc = "load"
    /\ LET r == LoadIndexResult(index_cache, call[t].signature)
       IN  /\ store' = IF r.hit THEN r.store ELSE store
           /\ retriever' = IF r.hit THEN Retriever(r.store) ELSE retriever
           /\ call' = [call EXCEPT ![t].pc = IF r.hit THEN "set_key" ELSE "build",
                                   ![t].ops = @ \cup {"load_index"}
                                                \cup (IF ~r.hit /\ HasIndexFile(index_cache, call[t].signature, "pkl")
                                                          /\ HasIndexFile(index_cache, call[t].signature, "json")
                                                      THEN {"load_index_failed"} ELSE {})]
    /\ UNCHANGED <<cfgVars, chunkVars, diskVars, self_chunks, current_index_key, remembered, sigVars, fnVars, oecVars>>

\* line 208, _build_index lines 146-151: read and chunk every candidate,
\* then self._chunks = chunks; self._store = BM25VectorStore(chunks)
BuildIndex(t) ==
    /\ call[t].pc = "build"
    /\ \E w \in [DOMAIN dataset.files -> WriteOutcomes] :
         LET r == build_chunks(dataset, call[t].pdfs, text_file, meta_file,
                               chunk_size, chunk_overlap, max_pages, w)
         IN  /\ text_file' = r.text_file
             /\ meta_file' = r.meta_file
             /\ self_chunks' = IF r.status = "ok" THEN r.chunks ELSE self_chunks
             /\ store' = IF r.status = "ok" THEN BM25VectorStore(r.chunks) ELSE store
             /\ call' = [call EXCEPT
                           ![t].pc = CASE r.status = "ok" -> "build_retriever"
                                       [] r.status = "raised" -> "raised"
                                       [] OTHER -> "hung",
                           ![t].ops = @ \cup {"build_index"}
                                        \cup (IF r.status = "ok" THEN {"bm25_build"} ELSE {})
                                        \cup (IF r.write_failed
                                              THEN {"text_cache_write_failed"} ELSE {})]
    /\ UNCHANGED <<cfgVars, chunkVars, dataset, index_cache, retriever,
                   current_index_key, remembered, sigVars, fnVars, oecVars>>

\* _build_index line 152: self._retriever = Retriever(self._store)
InstallRetriever(t) ==
    /\ call[t].pc = "build_retriever"
    /\ retriever' = Retriever(store)
    /\ call' = [call EXCEPT ![t].pc = "save"]
    /\ UNCHANGED <<cfgVars, chunkVars, diskVars, self_chunks, store,
                   current_index_key, remembered, sigVars, fnVars, oecVars>>

\* line 209: self._save_index(signature, meta)
SaveIndex(t) ==
    /\ call[t].pc = "save"
    /\ index_cache' = SaveIndexResult(index_cache, store, call[t].signature,
                                      call[t].signature.sha256)
    /\ call' = [call EXCEPT ![t].pc = "set_key",
                            ![t].ops = @ \cup {"save_index"}
                                         \cup (IF store # None /\ "to_state" \notin StoreMethods
                                               THEN {"index_cache_write_failed"} ELSE {})]
    /\ UNCHANGED <<cfgVars, chunkVars, dataset, text_file, meta_file, selfVars, remembered, sigVars, fnVars, oecVars>>

\* line 210 as a bug would have it: the assignment is forgotten (used to
\* test the claims)
SetKeyForgotten(t) ==
    /\ call[t].pc = "set_key"
    /\ call' = [call EXCEPT ![t].pc = "search"]
    /\ UNCHANGED <<cfgVars, chunkVars, diskVars, selfVars, remembered, sigVars, fnVars, oecVars>>

\* line 210: self._current_index_key = signature
SetKey(t) ==
    /\ call[t].pc = "set_key"
    /\ current_index_key' = call[t].signature
    /\ call' = [call EXCEPT ![t].pc = "search"]
    /\ UNCHANGED <<cfgVars, chunkVars, diskVars, self_chunks, store, retriever, remembered, sigVars, fnVars, oecVars>>

\* lines 211-214
Search(t) ==
    /\ call[t].pc = "search"
    /\ call' = [call EXCEPT
                  ![t].pc = "returned",
                  ![t].result = IF retriever = None THEN <<>>
                                ELSE RetrieverRetrieve(retriever, call[t].query,
                                                       call[t].top_k)]
    /\ UNCHANGED <<cfgVars, chunkVars, diskVars, selfVars, remembered, sigVars, fnVars, oecVars>>


(***************************************************************************)
(* The environment: files of the dataset directory come, change and go,    *)
(* and the process is restarted with another configuration.  Both happen   *)
(* between retrieve activations.                                           *)
(***************************************************************************)
NoCallRunning == \A t \in Threads : AtRest(t) \/ call[t].pc = "hung"

MakeDirectory ==
    /\ NoCallRunning
    /\ ~dataset.exists
    /\ dataset' = [dataset EXCEPT !.exists = TRUE]
    /\ UNCHANGED <<cfgVars, chunkVars, text_file, meta_file, index_cache,
                   selfVars, call, remembered, sigVars, fnVars, oecVars>>

WriteFile(name, f) ==
    /\ NoCallRunning
    /\ dataset.exists
    /\ dataset.files[name] # f
    /\ dataset' = [dataset EXCEPT !.files[name] = f]
    /\ UNCHANGED <<cfgVars, chunkVars, text_file, meta_file, index_cache,
                   selfVars, call, remembered, sigVars, fnVars, oecVars>>

DeleteFile(name) ==
    /\ NoCallRunning
    /\ dataset.exists
    /\ dataset.files[name] # None
    /\ dataset' = [dataset EXCEPT !.files[name] = None]
    /\ UNCHANGED <<cfgVars, chunkVars, text_file, meta_file, index_cache,
                   selfVars, call, remembered, sigVars, fnVars, oecVars>>

\* the configurations a KnowledgeBase is constructed with
KBConfigs ==
    {[chunk_size |-> 2, chunk_overlap |-> 0, max_pages |-> 2, max_docs |-> 2],
     [chunk_size |-> 2, chunk_overlap |-> 0, max_pages |-> 2, max_docs |-> 1],
     [chunk_size |-> 2, chunk_overlap |-> 1, max_pages |-> 2, max_docs |-> 2]}

\* KnowledgeBase.__init__ (lines 33-52) in a fresh process: the disk stays
Construct(cfg) ==
    /\ NoCallRunning
    /\ chunk_size' = cfg.chunk_size
    /\ chunk_overlap' = cfg.chunk_overlap
    /\ max_pages' = cfg.max_pages
    /\ max_docs' = cfg.max_docs
    /\ self_chunks' = <<>>
    /\ store' = None
    /\ retriever' = None
    /\ current_index_key' = None
    /\ call' = [t \in Threads |-> Idle]
    /\ <<chunk_size', chunk_overlap', max_pages', max_docs'>> # cfgVars
    /\ UNCHANGED <<chunkVars, diskVars, remembered, sigVars, fnVars, oecVars>>

ChunkUnused ==
    /\ text = <<>>
    /\ source = <<>>
    /\ start = 0
    /\ index = 0
    /\ chunks = <<>>
    /\ chunk_pc = "unused"
    /\ visited = {}

\* a first start on an empty disk
InitKB ==
    /\ \E cfg \in KBConfigs :
         /\ chunk_size = cfg.chunk_size
         /\ chunk_overlap = cfg.chunk_overlap
         /\ max_pages = cfg.max_pages
         /\ max_docs = cfg.max_docs
    /\ dataset = NoDirectory
    /\ text_file = [n \in Names |-> None]
    /\ meta_file = [n \in Names |-> None]
    /\ index_cache = {}
    /\ self_chunks = <<>>
    /\ store = None
    /\ retriever = None
    /\ current_index_key = None
    /\ call = [t \in Threads |-> Idle]
    /\ remembered = None
    /\ ChunkUnused
    /\ SigUnused
    /\ FnUnused
    /\ OECUnused

Environment ==
    \/ MakeDirectory
    \/ \E n \in Names : \E f \in FileVersions(n) : WriteFile(n, f)
    \/ \E n \in Names : DeleteFile(n)
    \/ \E cfg \in KBConfigs : Construct(cfg)

RetrieveSteps(t) ==
    \/ \E q \in Queries, k \in TopKs : RetrieveCall(t, q, k)
    \/ LoadIndex(t)
    \/ BuildIndex(t)
    \/ InstallRetriever(t)
    \/ SaveIndex(t)
    \/ SetKey(t)
    \/ Search(t)

\* one caller at a time: the retrieve activations are sequential
Next == RetrieveSteps(1) \/ Environment

Spec == InitKB /\ [][Next]_vars


Sources(chs) == {chs[i].source : i \in DOMAIN chs}

CandidateStems(t) == {Stem(call[t].pdfs[i]) : i \in DOMAIN call[t].pdfs}

\* caller t enters retrieve in this step
Enters(t) == AtRest(t) /\ call'[t].pc \in {"load", "search"}

(***************************************************************************)
(* C2: a failure while extracting one document or one page (PdfReader      *)
(* raises, a page's extract_text raises) does not abort retrieve: no       *)
(* activation ends by raising.                                             *)
(***************************************************************************)
C2_ExtractionFailureNeverAborts ==
    \A t \in Threads : call[t].pc # "raised"

(***************************************************************************)
(* C3: an activation whose signature equals the active signature goes      *)
(* straight to search: it performs no index cache load, no extraction,     *)
(* chunking or BM25 build and no index cache save, and leaves the active   *)
(* signature, the active index and the disk as they are.                   *)
(***************************************************************************)
C3_SameSignatureGoesStraightToSearch ==
    [][\A t \in Threads :
         /\ (Enters(t) /\ call'[t].signature = current_index_key)
              => /\ call'[t].pc = "search"
                 /\ call'[t].ops = {}
                 /\ UNCHANGED <<diskVars, selfVars>>
         /\ (call[t].pc = "search" /\ call[t].ops = {} /\ call'[t] # call[t])
              => /\ call'[t].pc = "returned"
                 /\ call'[t].ops = {}
                 /\ UNCHANGED <<diskVars, selfVars>>]_vars

\* an activation that skipped the resolution and answered from the active index
C3_Witness ==
    \E t \in Threads :
        /\ call[t].pc = "returned"
        /\ call[t].ops = {}
        /\ call[t].signature = current_index_key
        /\ call[t].result # <<>>

(***************************************************************************)
(* C4: with sequential activations, when an activation returns the active  *)
(* signature is the one it computed and the active index belongs to it, so *)
(* every returned chunk comes from one of its candidate documents; an      *)
(* activation that fails leaves the signature and the index as they were.  *)
(***************************************************************************)
C4_ReturnedFromOwnIndex(t) ==
    call[t].pc = "returned" =>
        /\ current_index_key = call[t].signature
        /\ store # None
        /\ retriever = Retriever(store)
        /\ Sources(store.chunks) \subseteq CandidateStems(t)
        /\ Sources(call[t].result) \subseteq CandidateStems(t)

C4_FailureKeepsActivePair(t) ==
    (/\ call[t].pc \in {"idle", "returned", "raised", "load", "build"}
     /\ call'[t].pc \in {"load", "build", "raised", "hung"}
     /\ call'[t] # call[t])
        => UNCHANGED selfVars

C4_ActivePairFollowsCalls ==
    /\ [](\A t \in Threads : C4_ReturnedFromOwnIndex(t))
    /\ [][\A t \in Threads : C4_FailureKeepsActivePair(t)]_vars

\* an activation built an index for its candidates and returned chunks of it
C4_Witness ==
    \E t \in Threads :
        /\ call[t].pc = "returned"
        /\ "build_index" \in call[t].ops
        /\ call[t].result # <<>>

(***************************************************************************)
(* C9: with an empty candidate set retrieve returns an empty result        *)
(* without attempting a build: no _build_index, no BM25 index construction *)
(* and no index cache save happen in that activation.                      *)
(***************************************************************************)
C9_EmptyCandidatesBuildNothing ==
    \A t \in Threads :
        (call[t].pc # "idle" /\ call[t].pdfs = <<>>)
            => call[t].ops \cap {"build_index", "bm25_build", "save_index"} = {}

(***************************************************************************)
(* C10: when the dataset directory is missing or holds no document, every  *)
(* retrieve activation, for any query and top_k >= 0 and however often it  *)
(* is repeated, has no candidate, does not raise or hang, and returns an   *)
(* empty result.                                                           *)
(***************************************************************************)
C10_EmptyCorpusAnswer(t) ==
    (call[t].pc # "idle" /\ call[t].pdfs = <<>>)
        => /\ call[t].pc \notin {"raised", "hung"}
           /\ call[t].pc = "returned" => call[t].result = <<>>

C10_EmptyCorpusAlwaysEmpty ==
    /\ [](\A t \in Threads : C10_EmptyCorpusAnswer(t))
    /\ [][\A t \in Threads :
            (Enters(t) /\ list_pdfs(dataset) = <<>>) => call'[t].pdfs = <<>>]_vars

\* a repeated activation without a dataset directory, answered empty
C10_Witness ==
    \E t \in Threads :
        /\ ~dataset.exists
        /\ call[t].pc = "returned"
        /\ call[t].ops = {}
        /\ call[t].pdfs = <<>>
        /\ call[t].result = <<>>

(***************************************************************************)
(* C6: index cache round trip: after _save_index(signature, meta) of a     *)
(* built index (here one that holds chunks), _load_index(signature) is a   *)
(* hit and installs a store whose search gives the same chunks, order and  *)
(* scores for every query and top_k.                                       *)
(***************************************************************************)
C6_SavedIndexLoadsBack ==
    \A t \in Threads :
        (call[t].pc = "set_key" /\ "save_index" \in call[t].ops /\ self_chunks # <<>>)
            => LET r == LoadIndexResult(index_cache, call[t].signature)
               IN  /\ r.hit
                   /\ \A q \in Queries, k \in TopKs :
                          search(r.store, q, k) = search(store, q, k)


(***************************************************************************)
(* Concurrent callers: two threads run retrieve on the one instance that   *)
(* get_knowledge_base (knowledge_base.py 289-296) hands out.  retrieve     *)
(* takes no lock, so the steps of the two activations interleave.          *)
(***************************************************************************)
InitConc ==
    /\ chunk_size = 2
    /\ chunk_overlap = 0
    /\ max_pages = 2
    /\ max_docs = 1
    /\ dataset = [exists |-> TRUE,
                  files  |-> [n \in Names |-> IF n = NameA THEN FileA1 ELSE FileB1]]
    /\ text_file = [n \in Names |-> None]
    /\ meta_file = [n \in Names |-> None]
    /\ index_cache = {}
    /\ self_chunks = <<>>
    /\ store = None
    /\ retriever = None
    /\ current_index_key = None
    /\ call = [t \in Threads |-> Idle]
    /\ remembered = None
    /\ ChunkUnused
    /\ SigUnused
    /\ FnUnused
    /\ OECUnused

NextConc == \E t \in Threads : RetrieveSteps(t)

SpecConc == InitConc /\ [][NextConc]_vars

(***************************************************************************)
(* C5: with concurrent activations of different signatures the active      *)
(* slot is read and replaced under mutual exclusion: an activation that    *)
(* reaches its search finds the active signature equal to its own and an   *)
(* index (store and retriever) that was resolved for its own candidates.   *)
(***************************************************************************)
C5_EachCallSearchesItsOwnIndex ==
    \A t \in Threads :
        call[t].pc = "search" =>
            /\ current_index_key = call[t].signature
            /\ store # None
            /\ retriever = Retriever(store)
            /\ Sources(store.chunks) \subseteq CandidateStems(t)

(***************************************************************************)
(* Rebuilds under changing max_pages: the process is restarted with        *)
(* another max_pages over the same disk, and one completed build is        *)
(* remembered for comparison.                                              *)
(***************************************************************************)
PageConfigs ==
    {[chunk_size |-> 2, chunk_overlap |-> 0, max_pages |-> 1, max_docs |-> 2],
     [chunk_size |-> 2, chunk_overlap |-> 0, max_pages |-> 2, max_docs |-> 2]}

\* history only: keep the build that has just completed
Remember(t) ==
    /\ call[t].pc = "build_retriever"
    /\ remembered = None
    /\ remembered' = [signature |-> call[t].signature, chunks |-> self_chunks]
    /\ UNCHANGED <<cfgVars, chunkVars, diskVars, selfVars, call, sigVars, fnVars, oecVars>>

InitRebuild ==
    /\ \E cfg \in PageConfigs :
         /\ chunk_size = cfg.chunk_size
         /\ chunk_overlap = cfg.chunk_overlap
         /\ max_pages = cfg.max_pages
         /\ max_docs = cfg.max_docs
    /\ dataset = NoDirectory
    /\ text_file = [n \in Names |-> None]
    /\ meta_file = [n \in Names |-> None]
    /\ index_cache = {}
    /\ self_chunks = <<>>
    /\ store = None
    /\ retriever = None
    /\ current_index_key = None
    /\ call = [t \in Threads |-> Idle]
    /\ remembered = None
    /\ ChunkUnused
    /\ SigUnused
    /\ FnUnused
    /\ OECUnused

NextRebuild ==
    \/ RetrieveSteps(1)
    \/ Remember(1)
    \/ MakeDirectory
    \/ \E f \in {FileA1, FileA2} : WriteFile(NameA, f)
    \/ \E cfg \in PageConfigs : Construct(cfg)

SpecRebuild == InitRebuild /\ [][NextRebuild]_vars

(***************************************************************************)
(* C8: any two index builds under the same signature produce the same      *)
(* chunk list (chunk_id, content, source, page), whatever the text cache   *)
(* held before, an entry written under another max_pages included.         *)
(***************************************************************************)
C8_SameSignatureSameChunks ==
    \A t \in Threads :
        (/\ remembered # None
         /\ call[t].pc = "build_retriever"
         /\ call[t].signature = remembered.signature)
            => self_chunks = remembered.chunks


(***************************************************************************)
(* _index_signature applied twice, to any two candidate lists, file stats  *)
(* and parameters.                                                         *)
(***************************************************************************)
\* a file seen through stat() only
StatFile(size, mtime) == File(size, mtime, TRUE, <<>>)

SigDatasets ==
    {[exists |-> TRUE, files |-> f] :
        f \in {g \in [Names -> {None} \cup {StatFile(sz, mt) : sz, mt \in 1..MaxStat}] :
                  g[NameB] \in {None, StatFile(1, 1)}}}

\* the candidate lists over a dataset: its files, some of them, in any order
CandidateLists(ds) ==
    {l \in SeqsUpTo({n \in DOMAIN ds.files : ds.files[n] # None},
                    Cardinality(DOMAIN ds.files)) :
        \A i, j \in DOMAIN l : i # j => l[i] # l[j]}

SigConfigs ==
    {[chunk_size |-> 2, chunk_overlap |-> 0, max_pages |-> 2],
     [chunk_size |-> 1, chunk_overlap |-> 0, max_pages |-> 2],
     [chunk_size |-> 2, chunk_overlap |-> 1, max_pages |-> 2],
     [chunk_size |-> 2, chunk_overlap |-> 0, max_pages |-> 1]}

SigInputs ==
    UNION {{[ds |-> ds, pdfs |-> l, cfg |-> cfg] : l \in CandidateLists(ds), cfg \in SigConfigs}
              : ds \in SigDatasets}

InitSig ==
    /\ sig_in \in [{1, 2} -> SigInputs]
    /\ sig_out = [i \in {1, 2} |-> None]
    /\ chunk_size = 2
    /\ chunk_overlap = 0
    /\ max_pages = 2
    /\ max_docs = 2
    /\ KBUnused
    /\ ChunkUnused
    /\ FnUnused
    /\ OECUnused

\* signature, meta = self._index_signature(pdfs)
Sign(i) ==
    /\ sig_out[i] = None
    /\ sig_out' = [sig_out EXCEPT ![i] =
                      index_signature(sig_in[i].ds, sig_in[i].pdfs,
                                      sig_in[i].cfg.chunk_size,
                                      sig_in[i].cfg.chunk_overlap,
                                      sig_in[i].cfg.max_pages)]
    /\ UNCHANGED <<cfgVars, chunkVars, kbVars, sig_in, fnVars, oecVars>>

NextSig == \E i \in {1, 2} : Sign(i)

SpecSig == InitSig /\ [][NextSig]_vars

\* the set of (file name, size, mtime) of the candidates
FileSet(inp) == {FileEntry(inp.ds, inp.pdfs[i]) : i \in DOMAIN inp.pdfs}

(***************************************************************************)
(* C7: the signature is a function of the set of (name, size, mtime) of    *)
(* the candidates and of chunk_size, chunk_overlap and max_pages: two      *)
(* applications give the same signature exactly when those agree, whatever *)
(* the order of the candidate lists; a different size or mtime of one file *)
(* or a different chunk_size gives a different signature.                  *)
(***************************************************************************)
C7_SignatureOfFileSetAndParameters ==
    (sig_out[1] # None /\ sig_out[2] # None)
        => ((sig_out[1] = sig_out[2])
              <=> (/\ FileSet(sig_in[1]) = FileSet(sig_in[2])
                   /\ sig_in[1].cfg = sig_in[2].cfg))

\* the same two files listed in opposite orders, signed alike
C7_Witness ==
    /\ sig_out[1] # None
    /\ sig_out[2] # None
    /\ Len(sig_in[1].pdfs) = 2
    /\ sig_in[1].pdfs # sig_in[2].pdfs
    /\ sig_out[1] = sig_out[2]


(***************************************************************************)
(* A damaged index cache: between activations the files stored under a     *)
(* signature are replaced by bytes that do not unpickle, or by the pickle  *)
(* of something else.                                                      *)
(***************************************************************************)
IndexPickles == {CorruptPickle, BM25VectorStore(<<>>)}

\* the signature retrieve computes for a query on the present disk
SignatureFor(q) ==
    index_signature(dataset, match_documents(dataset, q, max_docs),
                    chunk_size, chunk_overlap, max_pages)

DamageIndexEntry(q, content) ==
    /\ NoCallRunning
    /\ IndexFile(SignatureFor(q), "pkl", content) \notin index_cache
    /\ index_cache' = {e \in index_cache : e.signature # SignatureFor(q)}
                        \cup {IndexFile(SignatureFor(q), "pkl", content),
                              IndexFile(SignatureFor(q), "json", SignatureFor(q).sha256)}
    /\ UNCHANGED <<cfgVars, chunkVars, dataset, text_file, meta_file,
                   selfVars, call, remembered, sigVars, fnVars, oecVars>>

InitCache ==
    /\ \E cfg \in KBConfigs :
         /\ chunk_size = cfg.chunk_size
         /\ chunk_overlap = cfg.chunk_overlap
         /\ max_pages = cfg.max_pages
         /\ max_docs = cfg.max_docs
    /\ dataset = [exists |-> TRUE,
                  files  |-> [n \in Names |-> IF n = NameA THEN FileA1 ELSE FileB1]]
    /\ text_file = [n \in Names |-> None]
    /\ meta_file = [n \in Names |-> None]
    /\ index_cache = {}
    /\ self_chunks = <<>>
    /\ store = None
    /\ retriever = None
    /\ current_index_key = None
    /\ call = [t \in Threads |-> Idle]
    /\ remembered = None
    /\ ChunkUnused
    /\ SigUnused
    /\ FnUnused
    /\ OECUnused

NextCache ==
    \/ RetrieveSteps(1)
    \/ \E q \in Queries, content \in IndexPickles : DamageIndexEntry(q, content)

SpecCache == InitCache /\ [][NextCache]_vars

(***************************************************************************)
(* C11: _load_index reports a hit only when both files of the signature    *)
(* exist and the pickle deserializes; an entry that does not deserialize   *)
(* is a miss that raises nothing and leaves the active store and retriever *)
(* alone, and the retrieve around it goes on to a full rebuild and returns *)
(* normally: it neither raises nor fails to come back.                     *)
(***************************************************************************)
C11_LoadStep(t) ==
    (call[t].pc = "load" /\ call'[t].pc # "load")
        => /\ call'[t].pc = "set_key"
                => /\ HasIndexFile(index_cache, call[t].signature, "pkl")
                   /\ HasIndexFile(index_cache, call[t].signature, "json")
                   /\ PickleOf(index_cache, call[t].signature) # CorruptPickle
           /\ "load_index_failed" \in call'[t].ops
                => /\ call'[t].pc = "build"
                   /\ UNCHANGED <<store, retriever>>

C11_CorruptEntryIsAMissThenRebuild ==
    /\ [][\A t \in Threads : C11_LoadStep(t)]_vars
    /\ [](\A t \in Threads :
            "load_index_failed" \in call[t].ops
                => /\ call[t].pc \notin {"raised", "hung"}
                   /\ call[t].pc = "returned" => "build_index" \in call[t].ops)

(***************************************************************************)
(* C12: a failure while writing the text cache or the index cache never    *)
(* leaves retrieve: the activation neither raises nor fails to come back,  *)
(* it returns the search results of the index it has just built, that      *)
(* index is the active one, and a later activation with the same signature *)
(* is served from it.                                                      *)
(***************************************************************************)
C12_WriteFailed(t) ==
    call[t].ops \cap {"text_cache_write_failed", "index_cache_write_failed"} # {}

C12_AnswerOfFreshIndex(t) ==
    (C12_WriteFailed(t) /\ call[t].pc = "search" /\ call'[t].pc = "returned")
        => /\ current_index_key = call[t].signature
           /\ store = BM25VectorStore(self_chunks)
           /\ retriever = Retriever(store)
           /\ call'[t].result = RetrieverRetrieve(Retriever(BM25VectorStore(self_chunks)),
                                                  call[t].query, call[t].top_k)

C12_ServedFromIt(t) ==
    (C12_WriteFailed(t) /\ call[t].pc = "returned" /\ Enters(t)
       /\ call'[t].signature = call[t].signature /\ UNCHANGED cfgVars)
        => call'[t].pc = "search"

C12_WriteFailureNeverStopsRetrieve ==
    /\ [](\A t \in Threads : C12_WriteFailed(t) => call[t].pc \notin {"raised", "hung"})
    /\ [][\A t \in Threads : C12_AnswerOfFreshIndex(t) /\ C12_ServedFromIt(t)]_vars


(***************************************************************************)
(* _match_documents applied to any query, corpus and max_docs.             *)
(***************************************************************************)
CH_B == 66           \* "B"
CH_zhong == 20013    \* a character of [U+4E00-U+9FFF]

NameAB  == <<CH_a, SP, CH_b>> \o PDF      \* "a b.pdf"
NameBA  == <<CH_B, SP, CH_a>> \o PDF      \* "B a.pdf"
NameCJK == <<CH_zhong>> \o PDF
MatchNames == {NameA, NameB, NameAB, NameBA, NameCJK}

MatchDatasets ==
    {NoDirectoryOver(MatchNames)}
      \cup {[exists |-> TRUE, files |-> f] : f \in [MatchNames -> {None, StatFile(1, 1)}]}

MatchQueries == SeqsUpTo({CH_a, CH_B, SP, CH_zhong}, MaxQueryLen)

InitMatch ==
    /\ fn_args \in [ds : MatchDatasets, query : MatchQueries, max_docs : 1..MaxDocs]
    /\ fn_result = None
    /\ chunk_size = 2
    /\ chunk_overlap = 0
    /\ max_pages = 2
    /\ max_docs = fn_args.max_docs
    /\ KBUnused
    /\ ChunkUnused
    /\ SigUnused
    /\ OECUnused

\* pdfs = self._match_documents(query)
Match ==
    /\ fn_result = None
    /\ fn_result' = MatchOutcome(fn_args.ds, fn_args.query, max_docs)
    /\ UNCHANGED <<cfgVars, chunkVars, kbVars, sigVars, fn_args, oecVars>>

NextMatch == Match

SpecMatch == InitMatch /\ [][NextMatch]_vars

\* the documents of the corpus
Corpus(ds) == IF ds.exists THEN {n \in DOMAIN ds.files : ds.files[n] # None} ELSE {}

\* size of the intersection of the token sets of a document name and a query
Overlap(n, q) == Cardinality(Range(tokenize(Stem(n))) \cap Range(tokenize(q)))

\* the CJK characters of a query found in a document name
CjkHits(n, q) == Cardinality({c \in Range(q) : IsCJK(c) /\ c \in Range(Stem(n))})

Positive(ds, q) == {n \in Corpus(ds) : Overlap(n, q) > 0}

\* a comes before b: bigger intersection, or the same and earlier in the listing
RankedBefore(a, b, q) ==
    \/ Overlap(a, q) > Overlap(b, q)
    \/ Overlap(a, q) = Overlap(b, q) /\ LexLess(a, b)

(***************************************************************************)
(* C13: when some document name shares a token with the query, the result  *)
(* of _match_documents is exactly the documents with a positive            *)
(* intersection, by intersection size descending, equal sizes in listing   *)
(* order, cut to max_docs; no document with an empty intersection is in it.*)
(***************************************************************************)
C13_TokenRuleRanksAndTruncates ==
    (fn_result # None /\ Positive(fn_args.ds, fn_args.query) # {})
        => LET r   == fn_result.pdfs
               q   == fn_args.query
               pos == Positive(fn_args.ds, q)
           IN  /\ Range(r) \subseteq pos
               /\ Len(r) = Min(fn_args.max_docs, Cardinality(pos))
               /\ \A i, j \in DOMAIN r : i < j => RankedBefore(r[i], r[j], q)
               /\ \A n \in pos \ Range(r) : \A i \in DOMAIN r : RankedBefore(r[i], n, q)

\* two documents tie, a weaker one is cut off, and another one shares nothing
C13_Witness ==
    /\ fn_result # None
    /\ Len(fn_result.pdfs) = 2
    /\ Overlap(fn_result.pdfs[1], fn_args.query) = Overlap(fn_result.pdfs[2], fn_args.query)
    /\ Positive(fn_args.ds, fn_args.query) \ Range(fn_result.pdfs) # {}
    /\ Corpus(fn_args.ds) \ Positive(fn_args.ds, fn_args.query) # {}

(***************************************************************************)
(* C14: when no document name shares a token with the query and none       *)
(* holds a CJK character of the query, the result of _match_documents is   *)
(* the first min(max_docs, |corpus|) documents of the sorted listing, in   *)
(* listing order.                                                          *)
(***************************************************************************)
C14_FallbackIsHeadOfListing ==
    (/\ fn_result # None
     /\ Positive(fn_args.ds, fn_args.query) = {}
     /\ \A n \in Corpus(fn_args.ds) : CjkHits(n, fn_args.query) = 0)
        => LET r == fn_result.pdfs
               c == Corpus(fn_args.ds)
           IN  /\ Range(r) \subseteq c
               /\ Len(r) = Min(fn_args.max_docs, Cardinality(c))
               /\ \A i, j \in DOMAIN r : i < j => LexLess(r[i], r[j])
               /\ \A n \in c \ Range(r) : \A i \in DOMAIN r : LexLess(r[i], n)

\* a query that matches nothing over a corpus bigger than max_docs
C14_Witness ==
    /\ fn_result # None
    /\ fn_args.query # <<>>
    /\ Positive(fn_args.ds, fn_args.query) = {}
    /\ Cardinality(Corpus(fn_args.ds)) > fn_args.max_docs
    /\ Len(fn_result.pdfs) = 2

(***************************************************************************)
(* C15: for every query, corpus and max_docs >= 1 the result of            *)
(* _match_documents holds only documents of the corpus, none of them       *)
(* twice, at most max_docs of them, and is empty exactly when the corpus   *)
(* is empty.                                                               *)
(***************************************************************************)
C15_CandidatesBounded ==
    fn_result # None
        => LET r == fn_result.pdfs
           IN  /\ Range(r) \subseteq Corpus(fn_args.ds)
               /\ \A i, j \in DOMAIN r : i # j => r[i] # r[j]
               /\ Len(r) <= fn_args.max_docs
               /\ (r = <<>>) <=> (Corpus(fn_args.ds) = {})

\* a corpus bigger than max_docs, cut to max_docs
C15_Witness ==
    /\ fn_result # None
    /\ Cardinality(Corpus(fn_args.ds)) > fn_args.max_docs
    /\ Len(fn_result.pdfs) = fn_args.max_docs
    /\ fn_args.max_docs >= 2


(***************************************************************************)
(* The loop of _build_index applied to any candidate list of a dataset     *)
(* directory, on an empty text cache.                                      *)
(***************************************************************************)
NameA0     == <<CH_a, HYPHEN, 48>> \o PDF     \* "a-0.pdf"
NameDot    == PDF                             \* ".pdf"
NameDotPdf == PDF \o PDF                      \* ".pdf.pdf"
IdNames == {NameA, NameA0, NameDot, NameDotPdf}

IdDatasets ==
    {[exists |-> TRUE, files |-> f] : f \in [IdNames -> {None, FileA2}]}

IdInputs ==
    UNION {{[ds |-> ds, pdfs |-> l, chunk_size |-> cs] :
               l \in CandidateLists(ds), cs \in 1..MaxChunkSize} : ds \in IdDatasets}

InitIds ==
    /\ fn_args \in IdInputs
    /\ fn_result = None
    /\ chunk_size = fn_args.chunk_size
    /\ chunk_overlap = 0
    /\ max_pages = 2
    /\ max_docs = Cardinality(IdNames)
    /\ KBUnused
    /\ ChunkUnused
    /\ SigUnused
    /\ OECUnused

\* _build_index lines 146-149
BuildChunks ==
    /\ fn_result = None
    /\ fn_result' = build_chunks(fn_args.ds, fn_args.pdfs,
                                 [n \in IdNames |-> None], [n \in IdNames |-> None],
                                 chunk_size, chunk_overlap, max_pages,
                                 [n \in IdNames |-> "written"])
    /\ UNCHANGED <<cfgVars, chunkVars, kbVars, sigVars, fn_args, oecVars>>

NextIds == BuildChunks

SpecIds == InitIds /\ [][NextIds]_vars

(***************************************************************************)
(* C19: within one built index, over any candidate list drawn from one     *)
(* dataset directory, no two chunks have the same chunk_id, chunks of      *)
(* different source documents included.                                    *)
(***************************************************************************)
C19_ChunkIdsUnique ==
    (fn_result # None /\ fn_result.status = "ok")
        => \A i, j \in DOMAIN fn_result.chunks :
              i # j => fn_result.chunks[i].chunk_id # fn_result.chunks[j].chunk_id


(***************************************************************************)
(* BM25VectorStore.search applied twice, with the same query and top_k, to *)
(* the index built from the chunks of two documents.                       *)
(***************************************************************************)
SearchTexts == SeqsUpTo({CH_a, CH_b, SP}, 3)

SearchQueries == {<<>>, QueryA, QueryB, QueryC, <<CH_a, SP, CH_b>>, <<CH_a, SP, CH_a>>}

\* the chunks _build_index collects from a.pdf and b.pdf
ChunksOfTexts(ta, tb, cs) ==
    chunk_text(ta, Stem(NameA), cs, 0).chunks \o chunk_text(tb, Stem(NameB), cs, 0).chunks

InitSearch ==
    /\ chunk_size \in {1, 3}
    /\ chunk_overlap = 0
    /\ max_pages = 2
    /\ max_docs = 2
    /\ \E ta \in SearchTexts, tb \in {<<>>, <<CH_a>>, <<CH_b, SP, CH_a>>} :
         self_chunks = ChunksOfTexts(ta, tb, chunk_size)
    /\ store = BM25VectorStore(self_chunks)
    /\ retriever = Retriever(store)
    /\ current_index_key = None
    /\ dataset = None
    /\ text_file = None
    /\ meta_file = None
    /\ index_cache = {}
    /\ call = None
    /\ remembered = None
    /\ fn_args \in [query : SearchQueries, top_k : 0..MaxHits]
    /\ fn_result = <<>>
    /\ ChunkUnused
    /\ SigUnused
    /\ OECUnused

\* results = self.store.search(query, top_k=top_k): the method assigns to no
\* attribute of the store
SearchStore ==
    /\ Len(fn_result) < 2
    /\ fn_result' = Append(fn_result, search(store, fn_args.query, fn_args.top_k))
    /\ UNCHANGED <<cfgVars, chunkVars, kbVars, sigVars, fn_args, oecVars>>

NextSearch == SearchStore

SpecSearch == InitSearch /\ [][NextSearch]_vars

\* the place of a chunk in the build order of the index
PositionOf(st, c) == CHOOSE i \in DOMAIN st.chunks : st.chunks[i] = c

(***************************************************************************)
(* C20: search returns its results by score, non-increasing; results of    *)
(* equal score stand in the build order of their chunks; no chunk is       *)
(* returned twice; the same query on the same index returns the same       *)
(* sequence; and search leaves the index as it was built.                  *)
(***************************************************************************)
C20_ResultOrdered(r) ==
    \A i, j \in DOMAIN r :
        i < j => /\ r[i].score >= r[j].score
                 /\ r[i].chunk # r[j].chunk
                 /\ r[i].score = r[j].score
                      => PositionOf(store, r[i].chunk) < PositionOf(store, r[j].chunk)

C20_SearchOrderedAndRepeatable ==
    /\ \A n \in DOMAIN fn_result : C20_ResultOrdered(fn_result[n])
    /\ Len(fn_result) = 2 => fn_result[1] = fn_result[2]
    /\ store = BM25VectorStore(self_chunks)

\* a repeated search with a strict step and a tie among three results
C20_Witness ==
    /\ Len(fn_result) = 2
    /\ Len(fn_result[2]) = 3
    /\ fn_result[2][1].score > fn_result[2][2].score
    /\ fn_result[2][2].score = fn_result[2][3].score


\* the chunks of the index whose score for the query is positive
ScoringChunks(st, query) ==
    {idx \in DOMAIN st.doc_tokens :
        st.doc_tokens[idx] # <<>> /\ DocScore(st, idx, tokenize(query)) > 0}

(***************************************************************************)
(* C21: for every index and query, search with top_k = 0 returns the empty *)
(* sequence, and with any top_k >= 0 it returns exactly                    *)
(* min(top_k, number of chunks of score > 0) results, every one of them a  *)
(* chunk of score > 0: a top_k above the number of scoring chunks returns  *)
(* those chunks and no padding.  Retriever.retrieve hands on the chunks of *)
(* these results, one per result.                                          *)
(***************************************************************************)
C21_TopKBoundary ==
    \A n \in DOMAIN fn_result :
        LET r == fn_result[n]
            scoring == ScoringChunks(store, fn_args.query)
        IN  /\ fn_args.top_k = 0 => r = <<>>
            /\ Len(r) = Min(fn_args.top_k, Cardinality(scoring))
            /\ \A i \in DOMAIN r :
                  \E idx \in scoring : store.chunks[idx] = r[i].chunk
            /\ Len(RetrieverRetrieve(retriever, fn_args.query, fn_args.top_k)) = Len(r)

\* a search whose top_k is above the number of scoring chunks, on an index
\* that holds scoring chunks and chunks that score nothing
C21_Witness ==
    /\ Len(fn_result) >= 1
    /\ Cardinality(ScoringChunks(store, fn_args.query)) >= 1
    /\ fn_args.top_k > Cardinality(ScoringChunks(store, fn_args.query))
    /\ Len(store.chunks) >= fn_args.top_k
    /\ Len(fn_result[1]) = Cardinality(ScoringChunks(store, fn_args.query))


(***************************************************************************)
(* KnowledgeBase._read_pdf_text called again and again on one document,    *)
(* its cache writes succeeding, while the file is replaced between calls.  *)
(***************************************************************************)
MaxCalls == 3

\* a.pdf after its size alone, or its mtime alone, has changed
FileSz == File(2, 1, TRUE, <<Page(TRUE, <<CH_b>>)>>)
FileMt == File(1, 2, TRUE, <<Page(TRUE, <<CH_b>>)>>)
\* a page whose extracted text holds a carriage return
FileCR == File(5, 5, TRUE, <<Page(TRUE, <<CH_a, CR, CH_b>>)>>)

TextVersions == {FileA1, FileSz, FileMt, FileA3, FileCR}

InitText ==
    /\ chunk_size = 2
    /\ chunk_overlap = 0
    /\ max_pages = 2
    /\ max_docs = 1
    /\ \E f \in TextVersions :
         dataset = [exists |-> TRUE, files |-> [n \in Names |-> IF n = NameA THEN f ELSE None]]
    /\ text_file = [n \in Names |-> None]
    /\ meta_file = [n \in Names |-> None]
    /\ index_cache = {}
    /\ self_chunks = <<>>
    /\ store = None
    /\ retriever = None
    /\ current_index_key = None
    /\ call = None
    /\ remembered = None
    /\ fn_args = None
    /\ fn_result = <<>>
    /\ ChunkUnused
    /\ SigUnused
    /\ OECUnused

\* text = self._read_pdf_text(pdf): the call's stat, whether it opened the
\* PDF, what it returned and the cache entry it left
ReadText ==
    /\ Len(fn_result) < MaxCalls
    /\ LET f == dataset.files[NameA]
           r == ReadPdfText(dataset, NameA, text_file, meta_file, max_pages, "written")
       IN  /\ text_file' = r.text_file
           /\ meta_file' = r.meta_file
           /\ fn_result' = Append(fn_result,
                                  [stat        |-> [mtime |-> f.mtime, size |-> f.size],
                                   raised      |-> r.raised,
                                   pdf_opened  |-> r.pdf_opened,
                                   text        |-> r.text,
                                   cached_text |-> r.text_file[NameA],
                                   cached_meta |-> r.meta_file[NameA]])
    /\ UNCHANGED <<cfgVars, chunkVars, dataset, index_cache, selfVars, call,
                   remembered, sigVars, fn_args, oecVars>>

\* the file is replaced, with another size or mtime
ReplaceFile(f) ==
    /\ Len(fn_result) < MaxCalls
    /\ f # dataset.files[NameA]
    /\ dataset' = [dataset EXCEPT !.files[NameA] = f]
    /\ UNCHANGED <<cfgVars, chunkVars, text_file, meta_file, index_cache, selfVars,
                   call, remembered, sigVars, fnVars, oecVars>>

NextText ==
    \/ ReadText
    \/ \E f \in TextVersions : ReplaceFile(f)

SpecText == InitText /\ [][NextText]_vars

\* calls i < j between which every call saw the same {size, mtime}
SameStat(i, j) ==
    /\ i < j
    /\ \A k \in i..j : fn_result[k].stat = fn_result[i].stat

\* after a call that extracted and cached, no later call under the same
\* stat opens the PDF
C22_ExtractedOnce ==
    \A i, j \in DOMAIN fn_result :
        (SameStat(i, j) /\ ~fn_result[i].raised) => ~fn_result[j].pdf_opened

\* and every such later call returns the text of the cache file as it is
C22_CachedTextVerbatim ==
    \A i, j \in DOMAIN fn_result :
        (SameStat(i, j) /\ ~fn_result[i].raised)
            => /\ ~fn_result[j].raised
               /\ fn_result[j].cached_text = fn_result[i].cached_text
               /\ fn_result[j].text = fn_result[j].cached_text.text

\* a call that finds the size or the mtime changed against the cached
\* metadata opens the PDF again and, when the extraction succeeds, leaves
\* its text and its stat in the cache
C22_ChangeReextracts ==
    \A j \in DOMAIN fn_result :
        (j > 1 /\ fn_result[j - 1].cached_meta # None
               /\ fn_result[j].stat # fn_result[j - 1].cached_meta)
            => /\ fn_result[j].pdf_opened
               /\ ~fn_result[j].raised
                    => /\ fn_result[j].cached_text = [text |-> fn_result[j].text]
                       /\ fn_result[j].cached_meta = fn_result[j].stat

(***************************************************************************)
(* C22: for a source document whose {size, mtime} does not change, across  *)
(* any number of _read_pdf_text calls with the cache writes succeeding,    *)
(* extraction is performed at most once and every later call returns the   *)
(* cached text verbatim; after the size or the mtime has changed, the next *)
(* call extracts again and overwrites the cached text and the cached       *)
(* metadata.                                                               *)
(***************************************************************************)
C22_TextCachedUntilStatChanges ==
    /\ C22_ExtractedOnce
    /\ C22_CachedTextVerbatim
    /\ C22_ChangeReextracts


(***************************************************************************)
(* retrieve("成都 火锅") on a fresh KnowledgeBase over the two documents   *)
(* 成都攻略.pdf and 北京攻略.pdf, the first alone holding 火锅.            *)
(***************************************************************************)
CH_cheng == 25104    \* 成
CH_du    == 37117    \* 都
CH_gong  == 25915    \* 攻
CH_lue   == 30053    \* 略
CH_bei   == 21271    \* 北
CH_jing  == 20140    \* 京
CH_huo   == 28779    \* 火
CH_guo   == 38149    \* 锅

NameChengdu == <<CH_cheng, CH_du, CH_gong, CH_lue>> \o PDF
NameBeijing == <<CH_bei, CH_jing, CH_gong, CH_lue>> \o PDF
E2ENames == {NameChengdu, NameBeijing}

QueryE2E == <<CH_cheng, CH_du, SP, CH_huo, CH_guo>>

\* the short texts the two documents extract to
ChengduFiles ==
    {File(1, 1, TRUE, <<Page(TRUE, <<CH_huo, CH_guo>>)>>),
     File(2, 1, TRUE, <<Page(TRUE, <<CH_cheng, CH_du, SP, CH_huo, CH_guo>>)>>),
     File(3, 1, TRUE, <<Page(TRUE, <<CH_gong, CH_lue>>), Page(TRUE, <<CH_huo, CH_guo>>)>>)}

BeijingFiles ==
    {File(1, 1, TRUE, <<Page(TRUE, <<CH_bei, CH_jing>>)>>),
     File(2, 1, TRUE, <<Page(TRUE, <<CH_cheng, CH_du, SP, CH_gong, CH_lue>>)>>)}

E2EConfigs ==
    [chunk_size : 1..MaxChunkSize, chunk_overlap : 0..MaxOverlap,
     max_pages : {2}, max_docs : 1..MaxDocs]

InitE2E ==
    /\ \E cfg \in E2EConfigs :
         /\ chunk_size = cfg.chunk_size
         /\ chunk_overlap = cfg.chunk_overlap
         /\ max_pages = cfg.max_pages
         /\ max_docs = cfg.max_docs
    /\ \E fc \in ChengduFiles, fb \in BeijingFiles :
         dataset = [exists |-> TRUE,
                    files  |-> [n \in E2ENames |-> IF n = NameChengdu THEN fc ELSE fb]]
    /\ text_file = [n \in E2ENames |-> None]
    /\ meta_file = [n \in E2ENames |-> None]
    /\ index_cache = {}
    /\ self_chunks = <<>>
    /\ store = None
    /\ retriever = None
    /\ current_index_key = None
    /\ call = [t \in Threads |-> Idle]
    /\ remembered = None
    /\ ChunkUnused
    /\ SigUnused
    /\ FnUnused
    /\ OECUnused

NextE2E ==
    \/ \E k \in 1..MaxHits : call[1].pc = "idle" /\ RetrieveCall(1, QueryE2E, k)
    \/ LoadIndex(1)
    \/ BuildIndex(1)
    \/ InstallRetriever(1)
    \/ SaveIndex(1)
    \/ SetKey(1)
    \/ Search(1)

SpecE2E == InitE2E /\ [][NextE2E]_vars

\* the Document Matcher selects the Chengdu document alone
C23_SelectsChengdu ==
    call[1].pc # "idle" => call[1].pdfs = <<NameChengdu>>

\* the index is built over that document's chunks alone
C23_IndexOfChengdu ==
    "bm25_build" \in call[1].ops
        => /\ self_chunks # <<>>
           /\ Sources(self_chunks) = {Stem(NameChengdu)}
           /\ store = BM25VectorStore(self_chunks)

\* the call comes back, with chunks, the first of them from 成都攻略
C23_ReturnsChengduFirst ==
    /\ call[1].pc \notin {"raised", "hung"}
    /\ call[1].pc = "returned"
         => /\ call[1].result # <<>>
            /\ call[1].result[1].source = Stem(NameChengdu)

(***************************************************************************)
(* C23: with a corpus of exactly the two documents 成都攻略.pdf and        *)
(* 北京攻略.pdf whose extracted text is short and holds 火锅 in the        *)
(* Chengdu document alone, retrieve("成都 火锅") selects the Chengdu       *)
(* document alone, builds the index over that document's chunks alone, and *)
(* returns a non-empty RetrievalResult whose first chunk has the source    *)
(* 成都攻略.                                                               *)
(***************************************************************************)
C23_EndToEndChengdu ==
    /\ C23_SelectsChengdu
    /\ C23_IndexOfChengdu
    /\ C23_ReturnsChengduFirst


(***************************************************************************)
(* BM25VectorStore.search on the index of three chunks of English text,    *)
(* in any build order.                                                     *)
(***************************************************************************)
\* "the quick brown fox"
TextQuickFox ==
    <<116, 104, 101, 32, 113, 117, 105, 99, 107, 32, 98, 114, 111, 119,
      110, 32, 102, 111, 120>>

\* "lorem ipsum dolor"
TextLorem ==
    <<108, 111, 114, 101, 109, 32, 105, 112, 115, 117, 109, 32, 100, 111,
      108, 111, 114>>

\* "fox jumps over the fox"
TextTwoFoxes ==
    <<102, 111, 120, 32, 106, 117, 109, 112, 115, 32, 111, 118, 101, 114,
      32, 116, 104, 101, 32, 102, 111, 120>>

\* "fox"
QueryFox ==
    <<102, 111, 120>>

\* "the"
QueryThe ==
    <<116, 104, 101>>

\* "lorem fox"
QueryLoremFox ==
    <<108, 111, 114, 101, 109, 32, 102, 111, 120>>

RankQueries == {<<>>, QueryFox, QueryThe, QueryLoremFox, QueryC}

\* the texts in every build order
RankTexts ==
    {s \in [1..3 -> {TextQuickFox, TextLorem, TextTwoFoxes}] :
        \A i, j \in 1..3 : i # j => s[i] # s[j]}

\* one chunk per text, as _chunk_text numbers them
RankChunks(texts) ==
    [i \in 1..Len(texts) |-> Chunk(ChunkId(<<CH_a>>, i - 1), texts[i], <<CH_a>>, i - 1)]

InitRank ==
    /\ chunk_size = 1
    /\ chunk_overlap = 0
    /\ max_pages = 2
    /\ max_docs = 2
    /\ \E texts \in RankTexts : self_chunks = RankChunks(texts)
    /\ store = BM25VectorStore(self_chunks)
    /\ retriever = Retriever(store)
    /\ current_index_key = None
    /\ dataset = None
    /\ text_file = None
    /\ meta_file = None
    /\ index_cache = {}
    /\ call = None
    /\ remembered = None
    /\ fn_args \in [query : RankQueries, top_k : 0..(MaxHits + 1)]
    /\ fn_result = <<>>
    /\ ChunkUnused
    /\ SigUnused
    /\ OECUnused

SpecRank == InitRank /\ [][NextSearch]_vars

(***************************************************************************)
(* C24: for the index built from the chunks "the quick brown fox", "lorem  *)
(* ipsum dolor" and "fox jumps over the fox" (k1 = 1.5, b = 0.75), in the  *)
(* order given or in any other, and the query "fox" with room for two      *)
(* results, search returns exactly two results: first the chunk that holds *)
(* "fox" twice, with a strictly higher score than the chunk that holds it  *)
(* once, which comes second; the chunk without "fox" is not returned.      *)
(***************************************************************************)
C24_TwoFoxesRankFirst ==
    \A n \in DOMAIN fn_result :
        (fn_args.query = QueryFox /\ fn_args.top_k >= 2)
            => /\ Len(fn_result[n]) = 2
               /\ fn_result[n][1].chunk.content = TextTwoFoxes
               /\ fn_result[n][2].chunk.content = TextQuickFox
               /\ fn_result[n][1].score > fn_result[n][2].score
               /\ \A i \in DOMAIN fn_result[n] :
                     fn_result[n][i].chunk.content # TextLorem

\* the chunks in the order given, searched for "fox" with the default top_k
C24_Witness ==
    /\ self_chunks = RankChunks(<<TextQuickFox, TextLorem, TextTwoFoxes>>)
    /\ fn_args.query = QueryFox
    /\ fn_args.top_k = 4
    /\ Len(fn_result) >= 1
    /\ Len(fn_result[1]) = 2


(***************************************************************************)
(* tokenize applied to any text over letters of both cases, a digit, a CJK *)
(* ideograph, and characters of neither class.                             *)
(***************************************************************************)
\* "a", "B", "0", " ", "-", U+00E9 (a letter outside ASCII), an ideograph
TokAlphabet == {CH_a, CH_B, 48, SP, HYPHEN, 233, CH_zhong}

TokTexts == SeqsUpTo(TokAlphabet, MaxQueryLen)

InitTok ==
    /\ fn_args \in TokTexts
    /\ fn_result = None
    /\ chunk_size = 2
    /\ chunk_overlap = 0
    /\ max_pages = 2
    /\ max_docs = 1
    /\ KBUnused
    /\ ChunkUnused
    /\ SigUnused
    /\ OECUnused

\* tokens = tokenize(text)
Tokenize ==
    /\ fn_result = None
    /\ fn_result' = [tokens |-> tokenize(fn_args)]
    /\ UNCHANGED <<cfgVars, chunkVars, kbVars, sigVars, fn_args, oecVars>>

NextTok == Tokenize

SpecTok == InitTok /\ [][NextTok]_vars

\* the places of s a token comes from: a single ideograph, or a run of
\* ASCII letters and digits that no letter or digit touches on either side
TokenSpans(s) ==
    {sp \in [from : 1..Len(s), to : 1..Len(s)] :
        \/ sp.from = sp.to /\ s[sp.from] \in 19968..40959
        \/ /\ sp.from <= sp.to
           /\ \A i \in sp.from..sp.to :
                 s[i] \in (48..57) \cup (65..90) \cup (97..122)
           /\ sp.from = 1
                \/ s[sp.from - 1] \notin (48..57) \cup (65..90) \cup (97..122)
           /\ sp.to = Len(s)
                \/ s[sp.to + 1] \notin (48..57) \cup (65..90) \cup (97..122)}

\* the k-th span from the left
SpanAt(s, k) ==
    CHOOSE sp \in TokenSpans(s) :
        Cardinality({o \in TokenSpans(s) : o.from < sp.from}) = k - 1

(***************************************************************************)
(* C25: tokenize returns, in left-to-right order, one token per CJK        *)
(* ideograph (U+4E00..U+9FFF) and one token per maximal run of ASCII       *)
(* letters and digits, every token lower-cased and non-empty; every other  *)
(* character yields no token and separates; the empty string yields the    *)
(* empty sequence.                                                         *)
(***************************************************************************)
C25_TokenizeBySpans ==
    fn_result # None
        => LET tokens == fn_result.tokens
           IN  /\ Len(tokens) = Cardinality(TokenSpans(fn_args))
               /\ \A k \in DOMAIN tokens :
                     LET sp == SpanAt(fn_args, k)
                     IN  /\ tokens[k] # <<>>
                         /\ Len(tokens[k]) = sp.to - sp.from + 1
                         /\ \A i \in DOMAIN tokens[k] :
                               LET c == fn_args[sp.from + i - 1]
                               IN  tokens[k][i] = IF c \in 65..90 THEN c + 32 ELSE c
               /\ fn_args = <<>> => tokens = <<>>

\* a text with an upper-case letter, an ideograph and a separator
C25_Witness ==
    /\ fn_result # None
    /\ \E i, j, k \in DOMAIN fn_args :
          /\ fn_args[i] = CH_B
          /\ fn_args[j] = CH_zhong
          /\ fn_args[k] \in {SP, HYPHEN, 233}
    /\ Len(fn_result.tokens) = 2


(***************************************************************************)
(* OverEngineeredCache (core/util_advanced/cache_system.py 490-879) with   *)
(* its built-in eviction policies (224-419).  Every public method holds    *)
(* self._lock for its whole body, so a method is one step, whichever       *)
(* thread calls it (the cleanup thread calls cleanup_expired).  A cached   *)
(* value plays no part and is left out; of the event log the last event is *)
(* kept; the statistics counters, which nothing reads back, are left out.  *)
(***************************************************************************)
MaxCacheSize == 2
MaxClock == 2
MaxAccess == 2

CacheKeys == 1..(MaxCacheSize + 1)
Policies == {"lru", "fifo", "lfu"}
\* Optional[T]: None, or a value
Some(x) == [value |-> x]

Ttls == {None, Some(0), Some(1)}

\* CacheEntry (lines 47-69), created at time t
CacheEntry(key, ttl, t) ==
    [key |-> key, created_at |-> t, last_accessed_at |-> t, access_count |-> 0,
     ttl |-> ttl]

\* CacheEntry.is_expired (lines 71-80) when time.time() returns t
is_expired(entry, t) ==
    IF entry.ttl = None THEN FALSE ELSE t > entry.created_at + entry.ttl.value

\* CacheEntry.touch (lines 82-85)
touch(entry, t) ==
    [entry EXCEPT !.last_accessed_at = t, !.access_count = @ + 1]

\* LRUEvictionPolicy(), FIFOEvictionPolicy(), LFUEvictionPolicy(): the keys
\* in the order of the OrderedDict, the list, the dict
NewPolicy(policy_type) == [policy_type |-> policy_type, tracked |-> <<>>]

Tracks(p, key) == \E i \in DOMAIN p.tracked : p.tracked[i].key = key

\* remove_key (lines 279-288, 342-351, 409-418)
remove_key(p, key) ==
    [p EXCEPT !.tracked = SelectSeq(@, LAMBDA e : e.key # key)]

\* record_access (lines 237-248, 304-313, 367-376)
record_access(p, key) ==
    CASE p.policy_type = "lru" ->
            [p EXCEPT !.tracked = Append(SelectSeq(@, LAMBDA e : e.key # key),
                                         [key |-> key, count |-> 0])]
      [] p.policy_type = "fifo" -> p
      [] p.policy_type = "lfu" ->
            IF Tracks(p, key)
            THEN [p EXCEPT !.tracked =
                     [i \in DOMAIN @ |-> IF @[i].key = key
                                         THEN [@[i] EXCEPT !.count = @ + 1] ELSE @[i]]]
            ELSE [p EXCEPT !.tracked = Append(@, [key |-> key, count |-> 1])]

\* record_insertion (lines 250-261, 315-325, 378-387)
record_insertion(p, key) ==
    CASE p.policy_type = "lru" ->
            [p EXCEPT !.tracked = Append(SelectSeq(@, LAMBDA e : e.key # key),
                                         [key |-> key, count |-> 0])]
      [] p.policy_type = "fifo" ->
            IF Tracks(p, key) THEN p
            ELSE [p EXCEPT !.tracked = Append(@, [key |-> key, count |-> 0])]
      [] p.policy_type = "lfu" ->
            IF Tracks(p, key)
            THEN [p EXCEPT !.tracked =
                     [i \in DOMAIN @ |-> IF @[i].key = key
                                         THEN [@[i] EXCEPT !.count = 1] ELSE @[i]]]
            ELSE [p EXCEPT !.tracked = Append(@, [key |-> key, count |-> 1])]

\* get_eviction_key (lines 263-277, 327-340, 389-407): the first key, or for
\* LFU the first key of the smallest count; None when nothing is tracked
get_eviction_key(p) ==
    IF p.tracked = <<>> THEN None
    ELSE IF p.policy_type = "lfu"
         THEN LET i == CHOOSE i \in DOMAIN p.tracked :
                          /\ \A j \in DOMAIN p.tracked : p.tracked[i].count <= p.tracked[j].count
                          /\ \A j \in 1..(i - 1) : p.tracked[j].count > p.tracked[i].count
              IN  Some(p.tracked[i].key)
         ELSE Some(p.tracked[1].key)

\* len(self._cache)
CacheLen(c) == Cardinality({k \in DOMAIN c : c[k] # None})

\* the loop of put, lines 614-623: the cache and the policy when it ends;
\* self._cache[eviction_key] raises KeyError for a key the cache does not
\* hold
RECURSIVE EvictLoop(_, _, _)
EvictLoop(c, p, limit) ==
    LET eviction_key == get_eviction_key(p)
    IN  IF ~(CacheLen(c) >= limit) THEN [cache |-> c, policy |-> p, raised |-> FALSE]
        ELSE IF eviction_key = None THEN [cache |-> c, policy |-> p, raised |-> FALSE]
        ELSE IF c[eviction_key.value] = None
             THEN [cache |-> c, policy |-> p, raised |-> TRUE]
        ELSE EvictLoop([c EXCEPT ![eviction_key.value] = None],
                       remove_key(p, eviction_key.value), limit)

\* CacheEvent (lines 124-140); key is None for a clear
CacheEvent(event_type, key) == [event_type |-> event_type, key |-> key]

\* OverEngineeredCache.__init__ (lines 503-554)
InitOEC ==
    /\ cache = [k \in CacheKeys |-> None]
    /\ eviction_policy \in {NewPolicy(t) : t \in Policies}
    /\ max_size \in 0..MaxCacheSize
    /\ default_ttl \in {None, Some(1)}
    /\ event_log = None
    /\ now = 0
    /\ chunk_size = 2
    /\ chunk_overlap = 0
    /\ max_pages = 2
    /\ max_docs = 1
    /\ KBUnused
    /\ ChunkUnused
    /\ SigUnused
    /\ FnUnused

OECOther == <<cfgVars, chunkVars, kbVars, sigVars, fnVars, max_size, default_ttl>>

\* get, lines 556-596
Get(key) ==
    /\ IF cache[key] = None
       THEN /\ event_log' = CacheEvent("miss", Some(key))
            /\ UNCHANGED <<cache, eviction_policy>>
       ELSE IF is_expired(cache[key], now)
       THEN /\ cache' = [cache EXCEPT ![key] = None]
            /\ eviction_policy' = remove_key(eviction_policy, key)
            /\ event_log' = CacheEvent("expiration", Some(key))
       ELSE /\ cache[key].access_count < MaxAccess
            /\ cache' = [cache EXCEPT ![key] = touch(@, now)]
            /\ eviction_policy' = record_access(eviction_policy, key)
            /\ event_log' = CacheEvent("hit", Some(key))
    /\ UNCHANGED <<OECOther, now>>

\* put, lines 598-640
Put(key, ttl) ==
    /\ LET c0 == [cache EXCEPT ![key] = None]
           p0 == IF cache[key] # None THEN remove_key(eviction_policy, key)
                 ELSE eviction_policy
           ev == EvictLoop(c0, p0, max_size)
           actual_ttl == IF ttl # None THEN ttl ELSE default_ttl
       IN  IF ev.raised
           THEN /\ cache' = ev.cache
                /\ eviction_policy' = ev.policy
                /\ event_log' = CacheEvent("raised", Some(key))
           ELSE /\ cache' = [ev.cache EXCEPT ![key] = CacheEntry(key, actual_ttl, now)]
                /\ eviction_policy' = record_insertion(ev.policy, key)
                /\ event_log' = CacheEvent("put", Some(key))
    /\ UNCHANGED <<OECOther, now>>

\* delete, lines 642-665
Delete(key) ==
    /\ IF cache[key] = None
       THEN UNCHANGED <<cache, eviction_policy, event_log>>
       ELSE /\ cache' = [cache EXCEPT ![key] = None]
            /\ eviction_policy' = remove_key(eviction_policy, key)
            /\ event_log' = CacheEvent("delete", Some(key))
    /\ UNCHANGED <<OECOther, now>>

\* clear, lines 667-682
Clear ==
    /\ cache' = [k \in CacheKeys |-> None]
    /\ eviction_policy' = NewPolicy(eviction_policy.policy_type)
    /\ event_log' = CacheEvent("clear", None)
    /\ UNCHANGED <<OECOther, now>>

\* contains, lines 684-704
Contains(key) ==
    /\ IF cache[key] # None /\ is_expired(cache[key], now)
       THEN /\ cache' = [cache EXCEPT ![key] = None]
            /\ eviction_policy' = remove_key(eviction_policy, key)
       ELSE UNCHANGED <<cache, eviction_policy>>
    /\ UNCHANGED <<OECOther, event_log, now>>

\* cleanup_expired, lines 764-785
CleanupExpired ==
    /\ LET expired_keys == {k \in CacheKeys : cache[k] # None /\ is_expired(cache[k], now)}
       IN  /\ cache' = [k \in CacheKeys |-> IF k \in expired_keys THEN None ELSE cache[k]]
           /\ eviction_policy' =
                 [eviction_policy EXCEPT
                    !.tracked = SelectSeq(@, LAMBDA e : e.key \notin expired_keys)]
           /\ event_log' = IF expired_keys = {} THEN event_log
                           ELSE CacheEvent("expiration", Some(CHOOSE k \in expired_keys : TRUE))
    /\ UNCHANGED <<OECOther, now>>

\* time passes
Tick ==
    /\ now < MaxClock
    /\ now' = now + 1
    /\ UNCHANGED <<OECOther, cache, eviction_policy, event_log>>

NextOEC ==
    \/ \E key \in CacheKeys : Get(key)
    \/ \E key \in CacheKeys, ttl \in Ttls : Put(key, ttl)
    \/ \E key \in CacheKeys : Delete(key)
    \/ Clear
    \/ \E key \in CacheKeys : Contains(key)
    \/ CleanupExpired
    \/ Tick

SpecOEC == InitOEC /\ [][NextOEC]_vars

\* the policy tracks the keys the cache holds, each once
C26_PolicyInStep ==
    /\ \A k \in CacheKeys : (cache[k] # None) <=> Tracks(eviction_policy, k)
    /\ Len(eviction_policy.tracked) = CacheLen(cache)

(***************************************************************************)
(* C26: for an OverEngineeredCache with a built-in eviction policy (LRU,   *)
(* FIFO or LFU) and any non-negative max_size, after every sequence of     *)
(* put, get, delete, contains, clear and cleanup_expired the number of     *)
(* stored entries never exceeds max_size.                                  *)
(***************************************************************************)
C26_SizeNeverExceedsMax == CacheLen(cache) <= max_size


(***************************************************************************)
(* BM25VectorStore built over the chunks of two documents (the statements  *)
(* of KnowledgeBase._build_index lines 150-152).                           *)
(***************************************************************************)
InitIndex ==
    /\ chunk_size \in {1, 3}
    /\ chunk_overlap = 0
    /\ max_pages = 2
    /\ max_docs = 2
    /\ \E ta \in SearchTexts, tb \in {<<>>, <<CH_a>>, <<CH_b, SP, CH_a>>} :
         self_chunks = ChunksOfTexts(ta, tb, chunk_size)
    /\ store = None
    /\ retriever = None
    /\ current_index_key = None
    /\ dataset = None
    /\ text_file = None
    /\ meta_file = None
    /\ index_cache = {}
    /\ call = None
    /\ remembered = None
    /\ ChunkUnused
    /\ SigUnused
    /\ FnUnused
    /\ OECUnused

\* self._store = BM25VectorStore(chunks); self._retriever = Retriever(self._store)
BuildStore ==
    /\ store = None
    /\ store' = BM25VectorStore(self_chunks)
    /\ retriever' = Retriever(store')
    /\ UNCHANGED <<cfgVars, chunkVars, diskVars, self_chunks, current_index_key,
                   call, remembered, sigVars, fnVars, oecVars>>

NextIndex == BuildStore

SpecIndex == InitIndex /\ [][NextIndex]_vars

\* the chunks whose content holds the term as a token
ChunksHolding(chs, term) ==
    {i \in DOMAIN chs : \E j \in DOMAIN tokenize(chs[i].content) :
                           tokenize(chs[i].content)[j] = term}

SharingChunks(st, query) ==
    {idx \in DOMAIN st.chunks :
        Range(tokenize(st.chunks[idx].content)) \cap Range(tokenize(query)) # {}}

(***************************************************************************)
(* C28: before the truncation to top_k, the result set of search is        *)
(* exactly the set of chunks that share a token with the query: every such *)
(* chunk gets a strictly positive score (the idf of every indexed term is  *)
(* strictly positive, since df <= N), and a chunk with no token in common  *)
(* with the query, or with no token at all, is never returned.             *)
(***************************************************************************)
C28_ResultsAreTheSharingChunks ==
    /\ \A term \in DOMAIN store.doc_freq : Idf(store, term) > 0
    /\ \A n \in DOMAIN fn_result :
          LET r == fn_result[n]
              sharing == SharingChunks(store, fn_args.query)
          IN  /\ \A i \in DOMAIN r :
                    /\ r[i].score > 0
                    /\ \E idx \in sharing : store.chunks[idx] = r[i].chunk
              /\ Len(r) = Min(fn_args.top_k, Cardinality(sharing))
              /\ fn_args.top_k >= Len(store.chunks)
                    => {r[i].chunk : i \in DOMAIN r}
                         = {store.chunks[idx] : idx \in sharing}

\* an untruncated search on an index where a term of the query stands in
\* most chunks, and another chunk shares nothing with the query
C28_Witness ==
    /\ Len(fn_result) >= 1
    /\ Len(store.chunks) = 3
    /\ fn_args.top_k = 3
    /\ Cardinality(SharingChunks(store, fn_args.query)) = 2
    /\ Len(fn_result[1]) = 2


(***************************************************************************)
(* _match_documents applied to queries and file names that hold            *)
(* ideographs.                                                             *)
(***************************************************************************)
CH_wen == 25991    \* 文

NameWen  == <<CH_wen>> \o PDF            \* "文.pdf"
NameAWen == <<CH_a, CH_wen>> \o PDF      \* "a文.pdf"
CjkNames == {NameA, NameCJK, NameWen, NameAWen}

CjkDatasets ==
    {NoDirectoryOver(CjkNames)}
      \cup {[exists |-> TRUE, files |-> f] : f \in [CjkNames -> {None, StatFile(1, 1)}]}

CjkQueries == SeqsUpTo({CH_a, SP, CH_zhong, CH_wen, CH_huo}, MaxQueryLen)

InitCjk ==
    /\ fn_args \in [ds : CjkDatasets, query : CjkQueries, max_docs : 1..MaxDocs]
    /\ fn_result = None
    /\ chunk_size = 2
    /\ chunk_overlap = 0
    /\ max_pages = 2
    /\ max_docs = fn_args.max_docs
    /\ KBUnused
    /\ ChunkUnused
    /\ SigUnused
    /\ OECUnused

SpecCjk == InitCjk /\ [][NextMatch]_vars

(***************************************************************************)
(* C29: in _match_documents, whenever the token rule (rule 1) selects no   *)
(* document, the CJK-character rule (rule 2: characters of the query found *)
(* in the file stem) selects none either, for every query and corpus; so   *)
(* a result comes from rule 1 or from the first-max_docs fallback, never   *)
(* from rule 2.                                                            *)
(***************************************************************************)
C29_CjkRuleNeverSelects ==
    fn_result # None
        => /\ fn_result.rule \in {"empty", "tokens", "first"}
           /\ fn_result.rule = "tokens" <=> Positive(fn_args.ds, fn_args.query) # {}
           /\ Positive(fn_args.ds, fn_args.query) = {}
                => \A n \in Corpus(fn_args.ds) : CjkHits(n, fn_args.query) = 0

\* a query with an ideograph over a corpus whose names hold another one:
\* rule 1 selects nothing, rule 2 is evaluated, the fallback answers
C29_Witness ==
    /\ fn_result # None
    /\ fn_result.rule = "first"
    /\ \E i \in DOMAIN fn_args.query : IsCJK(fn_args.query[i])
    /\ \E n \in Corpus(fn_args.ds) : \E i \in DOMAIN n : IsCJK(n[i])


(***************************************************************************)
(* retrieve called again and again on one KnowledgeBase instance over a    *)
(* corpus and a configuration that stay as they are.                       *)
(***************************************************************************)
NameBC == <<CH_b, SP, 99>> \o PDF        \* "b c.pdf"
HistNames == {NameA, NameBC}

QueryAB  == <<CH_a, SP, CH_b>>               \* "a b"
QueryABC == <<CH_a, SP, CH_b, SP, 99>>       \* "a b c"
HistQueries == {QueryA, QueryAB, QueryABC}

\* the text of b c.pdf: that of a.pdf, or another
HistFiles == {FileA1, FileB1}

HistConfigs ==
    [chunk_size : 1..MaxChunkSize, chunk_overlap : {0, 1}, max_pages : {2}, max_docs : {1, 2}]

InitHist ==
    /\ \E cfg \in HistConfigs :
         /\ chunk_size = cfg.chunk_size
         /\ chunk_overlap = cfg.chunk_overlap
         /\ max_pages = cfg.max_pages
         /\ max_docs = cfg.max_docs
    /\ \E f \in HistFiles :
         dataset = [exists |-> TRUE,
                    files  |-> [n \in HistNames |-> IF n = NameA THEN FileA1 ELSE f]]
    /\ text_file = [n \in HistNames |-> None]
    /\ meta_file = [n \in HistNames |-> None]
    /\ index_cache = {}
    /\ self_chunks = <<>>
    /\ store = None
    /\ retriever = None
    /\ current_index_key = None
    /\ call = [t \in Threads |-> Idle]
    /\ remembered = None
    /\ ChunkUnused
    /\ SigUnused
    /\ FnUnused
    /\ OECUnused

NextHist ==
    \/ \E q \in HistQueries, k \in 0..MaxTopK : RetrieveCall(1, q, k)
    \/ LoadIndex(1)
    \/ BuildIndex(1)
    \/ InstallRetriever(1)
    \/ SaveIndex(1)
    \/ SetKey(1)
    \/ Search(1)

SpecHist == InitHist /\ [][NextHist]_vars

\* what KnowledgeBase(...).retrieve(query, top_k) returns on an instance
\* constructed now, over the disk as it is
FreshAnswer(query, top_k) ==
    LET pdfs == match_documents(dataset, query, max_docs)
        r    == build_chunks(dataset, pdfs, text_file, meta_file, chunk_size,
                             chunk_overlap, max_pages,
                             [n \in DOMAIN dataset.files |-> "written"])
    IN  RetrieverRetrieve(Retriever(BM25VectorStore(r.chunks)), query, top_k)

(***************************************************************************)
(* C30: for a fixed corpus and configuration, the RetrievalResult of       *)
(* retrieve(query, top_k) on a KnowledgeBase instance is the same whatever *)
(* queries were served before it, and is what a freshly constructed        *)
(* instance returns for that query, the relative order of chunks of equal  *)
(* score from different documents included.                                *)
(***************************************************************************)
C30_HistoryIndependent ==
    call[1].pc = "returned"
        => call[1].result = FreshAnswer(call[1].query, call[1].top_k)

==========================================================================
